---------------------------- MODULE Spec2Model ----------------------------
(***************************************************************************)
(* Model of the statement quality gate of the finance tracker              *)
(* (src/financial_processor/utils/quality_checks.py).                      *)
(*                                                                         *)
(* Strings are TLA+ strings handled character by character (Len, SubSeq,   *)
(* \o).  A JSON value of the candidate parse is a tagged record:           *)
(*   [ty |-> "null"]  [ty |-> "bool", b]  [ty |-> "int", n]                *)
(*   [ty |-> "float", neg, whole, frac]  [ty |-> "nonfinite", k]           *)
(*   [ty |-> "str", s]                                                     *)
(*   [ty |-> "list", items]  [ty |-> "dict", d]                            *)
(* where a dict's d is a function from its keys (strings) to values, a     *)
(* list's items is a sequence of values, and a finite float is held in     *)
(* fixed point as a sign, a whole part and a number of hundredths (-12.5   *)
(* is neg, whole 12, frac 50).  Ints are within the range of a float,      *)
(* where float(int) raises nothing, and the numeric strings of the input   *)
(* sets carry at most two fractional digits.                               *)
(***************************************************************************)
EXTENDS Integers, Sequences, FiniteSets, TLC

(***************************************************************************)
(* JSON values                                                             *)
(***************************************************************************)
Null == [ty |-> "null"]

BoolV(b) == [ty |-> "bool", b |-> b]

IntV(n) == [ty |-> "int", n |-> n]

\* a finite float; -0.0 is 0.0
FloatV(neg, whole, frac) ==
    [ty |-> "float", neg |-> neg /\ (whole # 0 \/ frac # 0), whole |-> whole, frac |-> frac]

NonFinite(k) == [ty |-> "nonfinite", k |-> k]

StrV(s) == [ty |-> "str", s |-> s]

ListV(q) == [ty |-> "list", items |-> q]

DictV(f) == [ty |-> "dict", d |-> f]

EmptyDict == [k \in {} |-> Null]

\* isinstance(v, dict) / isinstance(v, list)
IsDict(v) == v.ty = "dict"

IsList(v) == v.ty = "list"

\* d.get(key, default) of a Python dict held as the function d
Get(d, key, default) == IF key \in DOMAIN d THEN d[key] ELSE default

\* d[key] = value of a Python dict held as the function d
Put(d, key, value) == [k \in (DOMAIN d) \cup {key} |-> IF k = key THEN value ELSE d[k]]

(***************************************************************************)
(* Characters and strings                                                  *)
(***************************************************************************)
Ch(s, i) == SubSeq(s, i, i)

Whitespace == {" ", "\t", "\n", "\r", "\f"}

Digits == {"0", "1", "2", "3", "4", "5", "6", "7", "8", "9"}

UpperLetters == <<"A", "B", "C", "D", "E", "F", "G", "H", "I", "J", "K", "L", "M",
                  "N", "O", "P", "Q", "R", "S", "T", "U", "V", "W", "X", "Y", "Z">>

LowerLetters == <<"a", "b", "c", "d", "e", "f", "g", "h", "i", "j", "k", "l", "m",
                  "n", "o", "p", "q", "r", "s", "t", "u", "v", "w", "x", "y", "z">>

IsUpper(c) == \E i \in 1..26 : UpperLetters[i] = c

IsLower(c) == \E i \in 1..26 : LowerLetters[i] = c

\* a character of the regular expressions' \w class
IsWordCh(c) == c \in Digits \/ IsUpper(c) \/ IsLower(c) \/ c = "_"

LowerCh(c) == IF IsUpper(c) THEN LowerLetters[CHOOSE i \in 1..26 : UpperLetters[i] = c] ELSE c

RECURSIVE Lower(_)
\* str.lower()
Lower(s) == IF s = "" THEN "" ELSE LowerCh(Ch(s, 1)) \o Lower(SubSeq(s, 2, Len(s)))

RECURSIVE LStrip(_)
LStrip(s) == IF s # "" /\ Ch(s, 1) \in Whitespace THEN LStrip(SubSeq(s, 2, Len(s))) ELSE s

RECURSIVE RStrip(_)
RStrip(s) == IF s # "" /\ Ch(s, Len(s)) \in Whitespace THEN RStrip(SubSeq(s, 1, Len(s) - 1)) ELSE s

\* str.strip()
Strip(s) == RStrip(LStrip(s))

\* sub in s
Contains(s, sub) == \E i \in 1..(Len(s) - Len(sub) + 1) : SubSeq(s, i, i + Len(sub) - 1) = sub

\* s[i:].startswith(sub), i counted from 1
StartsAt(s, i, sub) == i >= 1 /\ i + Len(sub) - 1 <= Len(s) /\ SubSeq(s, i, i + Len(sub) - 1) = sub

RECURSIVE DigitRun(_, _)
\* the number of consecutive digits of s from position i on
DigitRun(s, i) == IF i <= Len(s) /\ Ch(s, i) \in Digits THEN 1 + DigitRun(s, i + 1) ELSE 0

RECURSIVE WsRun(_, _)
\* the number of consecutive whitespace characters of s from position i on
WsRun(s, i) == IF i <= Len(s) /\ Ch(s, i) \in Whitespace THEN 1 + WsRun(s, i + 1) ELSE 0

DigitValue(c) == CHOOSE n \in 0..9 : Ch("0123456789", n + 1) = c

RECURSIVE StrToNat(_)
\* the value of a string of digits ("" is 0)
StrToNat(s) == IF s = "" THEN 0 ELSE 10 * StrToNat(SubSeq(s, 1, Len(s) - 1)) + DigitValue(Ch(s, Len(s)))

RECURSIVE NatToStr(_)
NatToStr(n) == IF n < 10 THEN Ch("0123456789", n + 1) ELSE NatToStr(n \div 10) \o Ch("0123456789", (n % 10) + 1)

Abs(n) == IF n < 0 THEN -n ELSE n

(***************************************************************************)
(* Python's str() and float() on JSON values                               *)
(***************************************************************************)
\* repr of a finite float: "12.5", "12.0", "-0.25"
FloatRepr(x) ==
    LET fs == IF x.frac % 10 = 0 THEN NatToStr(x.frac \div 10)
              ELSE NatToStr(x.frac \div 10) \o NatToStr(x.frac % 10)
    IN  (IF x.neg THEN "-" ELSE "") \o NatToStr(x.whole) \o "." \o fs

\* str(v) of a scalar
PyStr(v) ==
    CASE v.ty = "str" -> v.s
      [] v.ty = "null" -> "None"
      [] v.ty = "bool" -> IF v.b THEN "True" ELSE "False"
      [] v.ty = "int" -> (IF v.n < 0 THEN "-" ELSE "") \o NatToStr(Abs(v.n))
      [] v.ty = "float" -> FloatRepr(v)
      [] v.ty = "nonfinite" -> v.k

Raises(exc) == [ok |-> FALSE, exc |-> exc]

Returns(v) == [ok |-> TRUE, v |-> v]

\* float(s) of a string: surrounding whitespace, a sign, then inf, infinity, nan
\* (any case) or digits with an optional point; anything else is a ValueError
ParseFloat(s) ==
    LET t == Strip(s)
        neg == t # "" /\ Ch(t, 1) = "-"
        signed == t # "" /\ Ch(t, 1) \in {"-", "+"}
        body == IF signed THEN SubSeq(t, 2, Len(t)) ELSE t
        a == DigitRun(body, 1)
        point == a < Len(body) /\ Ch(body, a + 1) = "."
        b == IF point THEN DigitRun(body, a + 2) ELSE 0
        whole == StrToNat(SubSeq(body, 1, a))
        f1 == IF b >= 1 THEN DigitValue(Ch(body, a + 2)) ELSE 0
        f2 == IF b >= 2 THEN DigitValue(Ch(body, a + 3)) ELSE 0
    IN  IF Lower(body) \in {"inf", "infinity"} THEN Returns(NonFinite(IF neg THEN "-inf" ELSE "inf"))
        ELSE IF Lower(body) = "nan" THEN Returns(NonFinite("nan"))
        ELSE IF a + b >= 1 /\ a + (IF point THEN 1 ELSE 0) + b = Len(body)
             THEN Returns(FloatV(neg, whole, 10 * f1 + f2))
        ELSE Raises("ValueError")

\* float(v)
PyFloat(v) ==
    CASE v.ty \in {"float", "nonfinite"} -> Returns(v)
      [] v.ty = "int" -> Returns(FloatV(v.n < 0, Abs(v.n), 0))
      [] v.ty = "bool" -> Returns(FloatV(FALSE, IF v.b THEN 1 ELSE 0, 0))
      [] v.ty = "str" -> ParseFloat(v.s)
      [] OTHER -> Raises("TypeError")

(***************************************************************************)
(* The quality gate's helpers                                              *)
(***************************************************************************)
\* re.match(r'^\d{1,2}/\d{1,2}(?:/\d{2,4})?$', s.strip())
_valid_date(s) ==
    LET t == Strip(s)
        a == DigitRun(t, 1)
        b == DigitRun(t, a + 2)
        c == DigitRun(t, a + b + 3)
    IN  /\ a \in 1..2
        /\ StartsAt(t, a + 1, "/")
        /\ b \in 1..2
        /\ \/ a + 1 + b = Len(t)
           \/ /\ StartsAt(t, a + b + 2, "/")
              /\ c \in 2..4
              /\ a + b + 2 + c = Len(t)

\* the ceiling 1e8 of _valid_amount
AmountCeiling == 100000000

\* the test without f != 0.0
_valid_amount_AllowsZero(v) ==
    LET r == PyFloat(v)
    IN  r.ok /\ r.v.ty = "float" /\ r.v.whole < AmountCeiling

\* f != 0.0 and abs(f) < 1e8, with except (ValueError, TypeError): return False
_valid_amount(v) ==
    LET r == PyFloat(v)
    IN  /\ r.ok
        /\ r.v.ty = "float"
        /\ (r.v.whole # 0 \/ r.v.frac # 0)
        /\ r.v.whole < AmountCeiling

heading_snippets ==
    {"summary", "amount", "description", "sale", "post", "fees charged",
     "interest charged", "rewards", "total", "card by", "billing inquiries",
     "customer service", "minimum payment", "payment due date", "credit limit"}

\* the shortest text _is_heading_like does not call a heading for its length
MinHeadingLen == 3

_is_heading_like(desc) ==
    LET txt == Lower(Strip(desc))
    IN  Len(txt) < MinHeadingLen \/ \E sn \in heading_snippets : Contains(txt, sn)

(***************************************************************************)
(* _source_signals: the five signals of a raw text                         *)
(***************************************************************************)
\* the alternatives of brand_re, "master ?card" written out
brand_words ==
    {"visa", "mastercard", "master card", "amex", "discover", "citi", "chase",
     "bank of america", "wells fargo"}

structure_terms == {"statement", "account summary", "new balance", "payment due date"}

\* \b holds between positions i - 1 and i of t
WordBoundary(t, i) ==
    LET before == i >= 2 /\ i - 1 <= Len(t) /\ IsWordCh(Ch(t, i - 1))
        after == i >= 1 /\ i <= Len(t) /\ IsWordCh(Ch(t, i))
    IN  before # after

\* re.search(brand_re, t, flags=re.I)
HasBrand(t) ==
    LET lt == Lower(t)
    IN  \E w \in brand_words : \E i \in 1..Len(lt) :
            StartsAt(lt, i, w) /\ WordBoundary(lt, i) /\ WordBoundary(lt, i + Len(w))

\* r'(?:ending in|acct.*ending\s*in)\s*\d{3,4}' with re.I, searched in t
HasLast4(t) ==
    LET lt == Lower(t)
    IN  \E i \in 1..Len(lt) :
            /\ StartsAt(lt, i, "ending")
            /\ LET w1 == WsRun(lt, i + 6)
                   j == i + 6 + w1
                   w2 == WsRun(lt, j + 2)
               IN  /\ StartsAt(lt, j, "in")
                   /\ DigitRun(lt, j + 2 + w2) >= 3
                   /\ \/ SubSeq(lt, i + 6, j - 1) = " "
                      \/ \E a \in 1..(i - 4) :
                            /\ StartsAt(lt, a, "acct")
                            /\ ~Contains(SubSeq(lt, a + 4, i - 1), "\n")

\* the last position of a match of r'\b\d{1,2}/\d{1,2}(?:/\d{2,4})?\b' that
\* starts at position i of t, 0 when none starts there
DateMatchEnd(t, i) ==
    LET a == DigitRun(t, i)
        b == DigitRun(t, i + a + 1)
        e2 == i + a + b
        c == DigitRun(t, e2 + 2)
    IN  IF /\ WordBoundary(t, i)
           /\ a \in 1..2
           /\ StartsAt(t, i + a, "/")
           /\ b \in 1..2
        THEN IF StartsAt(t, e2 + 1, "/") /\ c \in 2..4 /\ WordBoundary(t, e2 + 2 + c)
             THEN e2 + 1 + c
             ELSE IF WordBoundary(t, e2 + 1) THEN e2 ELSE 0
        ELSE 0

RECURSIVE CountDates(_, _)
\* len(re.findall(...)) of the date pattern from position i on
CountDates(t, i) ==
    IF i > Len(t) THEN 0
    ELSE IF DateMatchEnd(t, i) > 0 THEN 1 + CountDates(t, DateMatchEnd(t, i) + 1)
    ELSE CountDates(t, i + 1)

RECURSIVE MoneyRun(_, _)
\* the number of consecutive characters of [\d,] of t from position i on
MoneyRun(t, i) == IF i <= Len(t) /\ Ch(t, i) \in Digits \cup {","} THEN 1 + MoneyRun(t, i + 1) ELSE 0

\* the last position of a match of r'\$\s?\d[\d,]*\.\d{2}' that starts at
\* position i of t, 0 when none starts there
MoneyMatchEnd(t, i) ==
    LET j == IF i + 1 <= Len(t) /\ Ch(t, i + 1) \in Whitespace THEN i + 2 ELSE i + 1
        r == MoneyRun(t, j + 1)
        dot == j + 1 + r
    IN  IF /\ StartsAt(t, i, "$")
           /\ j <= Len(t) /\ Ch(t, j) \in Digits
           /\ StartsAt(t, dot, ".")
           /\ DigitRun(t, dot + 1) >= 2
        THEN dot + 2
        ELSE 0

RECURSIVE CountMoney(_, _)
CountMoney(t, i) ==
    IF i > Len(t) THEN 0
    ELSE IF MoneyMatchEnd(t, i) > 0 THEN 1 + CountMoney(t, MoneyMatchEnd(t, i) + 1)
    ELSE CountMoney(t, i + 1)

_source_signals(raw_text) ==
    [has_brand |-> HasBrand(raw_text),
     has_structure |-> \E st \in structure_terms : Contains(Lower(raw_text), st),
     has_last4 |-> HasLast4(raw_text),
     date_hits |-> CountDates(raw_text, 1),
     money_hits |-> CountMoney(raw_text, 1)]

(***************************************************************************)
(* _extract_possible_cardholders: the allow-list of a raw text             *)
(***************************************************************************)
RECURSIVE UpperRun(_, _)
UpperRun(t, i) == IF i <= Len(t) /\ IsUpper(Ch(t, i)) THEN 1 + UpperRun(t, i + 1) ELSE 0

RECURSIVE WordEnds(_, _)
\* the last positions of the words [A-Z][A-Z]+, separated by \s+, that
\* follow one another from position s of t on
WordEnds(t, s) ==
    LET u == UpperRun(t, s)
        e == s + u - 1
        w == WsRun(t, e + 1)
    IN  IF u < 2 THEN <<>>
        ELSE <<e>> \o (IF w >= 1 THEN WordEnds(t, e + 1 + w) ELSE <<>>)

\* where a group ([A-Z][A-Z]+(?:\s+[A-Z][A-Z]+)+) that starts at s may end
NameEnds(t, s) == {WordEnds(t, s)[j] : j \in 2..Len(WordEnds(t, s))}

Max(S) == CHOOSE x \in S : \A y \in S : y <= x

\* \s*\n\s*(?:Card|Account)\s+ending\s+in\s+\d{3,4} matches after position e
\* of t: the last position of the match, 0 when there is none
CardLineEnd(t, e) ==
    LET w0 == WsRun(t, e + 1)
        q == e + 1 + w0
        k == IF StartsAt(t, q, "Card") THEN 4 ELSE IF StartsAt(t, q, "Account") THEN 7 ELSE 0
        w1 == WsRun(t, q + k)
        p1 == q + k + w1
        w2 == WsRun(t, p1 + 6)
        p2 == p1 + 6 + w2
        w3 == WsRun(t, p2 + 2)
        p3 == p2 + 2 + w3
        d == DigitRun(t, p3)
    IN  IF /\ Contains(SubSeq(t, e + 1, e + w0), "\n")
           /\ k > 0
           /\ w1 >= 1 /\ StartsAt(t, p1, "ending")
           /\ w2 >= 1 /\ StartsAt(t, p2, "in")
           /\ w3 >= 1 /\ d >= 3
        THEN p3 + (IF d >= 4 THEN 4 ELSE 3) - 1
        ELSE 0

\* the first pattern matched at the newline at position p of t: the group's
\* first and last position and the match's last position
CardMatch(t, p) ==
    LET s == p + 1 + WsRun(t, p + 1)
        ends == {e \in NameEnds(t, s) : CardLineEnd(t, e) > 0}
    IN  IF Ch(t, p) = "\n" /\ ends # {}
        THEN [ok |-> TRUE, from |-> s, to |-> Max(ends), end |-> CardLineEnd(t, Max(ends))]
        ELSE [ok |-> FALSE]

RECURSIVE CardNames(_, _)
\* the groups of re.finditer of the first pattern from position p of t on
CardNames(t, p) ==
    IF p > Len(t) THEN {}
    ELSE IF CardMatch(t, p).ok
         THEN {SubSeq(t, CardMatch(t, p).from, CardMatch(t, p).to)} \cup CardNames(t, CardMatch(t, p).end + 1)
    ELSE CardNames(t, p + 1)

\* \s*(?:\n|$) matches after position e of t
LineEndsAfter(t, e) ==
    LET w == WsRun(t, e + 1)
    IN  e + w = Len(t) \/ Contains(SubSeq(t, e + 1, e + w), "\n")

\* the group of \n\s*(...)\s*(?:\n|$) matched at the newline at position q
SummaryNameAt(t, q) ==
    LET s == q + 1 + WsRun(t, q + 1)
        ends == {e \in NameEnds(t, s) : LineEndsAfter(t, e)}
    IN  IF Ch(t, q) = "\n" /\ ends # {}
        THEN [ok |-> TRUE, from |-> s, to |-> Max(ends)]
        ELSE [ok |-> FALSE]

\* the second pattern matched at position p of t (the lazy .*? with re.DOTALL
\* stops at the first newline the rest matches from)
SummaryMatch(t, p) ==
    LET qs == {q \in (p + 18)..Len(t) : SummaryNameAt(t, q).ok}
        q == CHOOSE x \in qs : \A y \in qs : x <= y
    IN  IF StartsAt(t, p, "CARDHOLDER SUMMARY") /\ qs # {}
        THEN [ok |-> TRUE, from |-> SummaryNameAt(t, q).from, to |-> SummaryNameAt(t, q).to]
        ELSE [ok |-> FALSE]

RECURSIVE SummaryNames(_, _)
\* the groups of re.finditer of the second pattern from position p of t on
SummaryNames(t, p) ==
    IF p > Len(t) THEN {}
    ELSE IF SummaryMatch(t, p).ok
         THEN {SubSeq(t, SummaryMatch(t, p).from, SummaryMatch(t, p).to)}
              \cup SummaryNames(t, SummaryMatch(t, p).to + 1)
    ELSE SummaryNames(t, p + 1)

_extract_possible_cardholders(src) ==
    (CardNames(src, 1) \cup SummaryNames(src, 1)) \ {"PRIMARY ACCOUNT HOLDER"}

(***************************************************************************)
(* quality_gate: the steps of one evaluation                               *)
(***************************************************************************)
MsgNotDict == "Parsed result is not a dict."

MsgMissingMap == "Missing or invalid 'transactions_by_cardholder'."

MsgNoValid == "No valid transactions after cleanup."

MsgNoSignals == "Source text lacks recognizable statement signals."

MsgOK == "OK"

TxKey == "transactions_by_cardholder"

\* statement_parser_agent.MAX_RETRIES: the attempts of a document are 0..MAX_RETRIES
MAX_RETRIES == 2

Min(a, b) == IF a < b THEN a ELSE b

\* max(0, min(2, int(retry_level)))
ClampLevel(r) == IF Min(2, r) < 0 THEN 0 ELSE Min(2, r)

\* the schedule with the holder flag given the shape of the date flag
StrictnessKnobs_Misaligned(lv) ==
    [min_date_hits |-> <<5, 3, 2>>[lv + 1],
     min_money_hits |-> <<3, 2, 1>>[lv + 1],
     require_both_dates |-> <<TRUE, TRUE, FALSE>>[lv + 1],
     require_known_holder |-> <<TRUE, TRUE, FALSE>>[lv + 1]]

\* the holder flag back on at the last level
StrictnessKnobs_Tightening(lv) ==
    [min_date_hits |-> <<5, 3, 2>>[lv + 1],
     min_money_hits |-> <<3, 2, 1>>[lv + 1],
     require_both_dates |-> <<TRUE, TRUE, FALSE>>[lv + 1],
     require_known_holder |-> <<TRUE, FALSE, TRUE>>[lv + 1]]

\* the strictness knobs [5, 3, 2][level], [3, 2, 1][level],
\* [True, True, False][level], [True, False, False][level]
StrictnessKnobs(lv) ==
    [min_date_hits |-> <<5, 3, 2>>[lv + 1],
     min_money_hits |-> <<3, 2, 1>>[lv + 1],
     require_both_dates |-> <<TRUE, TRUE, FALSE>>[lv + 1],
     require_known_holder |-> <<TRUE, FALSE, FALSE>>[lv + 1]]

RECURSIVE Squash(_)
\* lower case, whitespace removed
Squash(s) ==
    IF s = "" THEN ""
    ELSE (IF Ch(s, 1) \in Whitespace THEN "" ELSE LowerCh(Ch(s, 1)))
         \o Squash(SubSeq(s, 2, Len(s)))

\* the holder compared with the allow-list without regard to case and spacing
HolderUnknown_Fuzzy(known_required, allowed, holder) ==
    known_required /\ allowed # {} /\ ~\E a \in allowed : Squash(a) = Squash(holder)

\* an empty allow-list taken to corroborate nobody
HolderUnknown_EmptyBlocks(known_required, allowed, holder) ==
    known_required /\ holder \notin allowed

\* line 62: the holder is skipped as unknown
HolderUnknown(known_required, allowed, holder) ==
    known_required /\ allowed # {} /\ holder \notin allowed

\* lines 71-72: the dates let the transaction through
DatesPass(both_required, sale_ok, post_ok) ==
    IF both_required THEN sale_ok /\ post_ok ELSE sale_ok \/ post_ok

\* no date copied
MirrorDates_None(both_required, d, sale, post, sale_ok, post_ok) == d

\* lines 74-76: the one valid date copied over the other
MirrorDates(both_required, d, sale, post, sale_ok, post_ok) ==
    IF both_required THEN d
    ELSE IF sale_ok /\ ~post_ok THEN Put(d, "post_date", StrV(sale))
    ELSE IF post_ok /\ ~sale_ok THEN Put(d, "sale_date", StrV(post))
    ELSE d

\* the shortest trimmed description line 78 lets through by its own test
MinDescLen == 2

\* line 78: the description stops the transaction
DescriptionRejected(desc) == _is_heading_like(desc) \/ Len(Strip(desc)) < MinDescLen

\* lines 67-81 on one element t of a holder's list: whether it is appended
\* to cleaned_txs, and t as the loop leaves it (a dict is changed in place)
SanitizeTx(t, both_required) ==
    IF ~IsDict(t) THEN [kept |-> FALSE, t |-> t]
    ELSE LET sale == PyStr(Get(t.d, "sale_date", StrV("")))
             post == PyStr(Get(t.d, "post_date", StrV("")))
             desc == PyStr(Get(t.d, "description", StrV("")))
             amt == Get(t.d, "amount", Null)
             sale_ok == _valid_date(sale)
             post_ok == _valid_date(post)
             mirrored == MirrorDates(both_required, t.d, sale, post, sale_ok, post_ok)
         IN  IF ~DatesPass(both_required, sale_ok, post_ok) THEN [kept |-> FALSE, t |-> t]
             ELSE IF DescriptionRejected(desc) \/ ~_valid_amount(amt)
                  THEN [kept |-> FALSE, t |-> DictV(mirrored)]
             ELSE [kept |-> TRUE, t |-> DictV(Put(mirrored, "amount", PyFloat(amt).v))]

\* the list txs after the loop of line 66 has run over it
SanitizedList(txs, both_required) ==
    [k \in 1..Len(txs) |-> SanitizeTx(txs[k], both_required).t]

RECURSIVE CleanedTxs(_, _)
\* cleaned_txs after the loop of line 66 has run over txs
CleanedTxs(txs, both_required) ==
    IF txs = <<>> THEN <<>>
    ELSE (IF SanitizeTx(Head(txs), both_required).kept
          THEN <<SanitizeTx(Head(txs), both_required).t>> ELSE <<>>)
         \o CleanedTxs(Tail(txs), both_required)

\* the holder entered whether or not a transaction is left
AddCleaned_Always(cmap, holder, cleaned_txs) == Put(cmap, holder, ListV(cleaned_txs))

\* lines 83-84: cleaned_map after a holder's list has been sanitized
AddCleaned(cmap, holder, cleaned_txs) ==
    IF cleaned_txs # <<>> THEN Put(cmap, holder, ListV(cleaned_txs)) ELSE cmap

\* line 88
SignalScore(sig, date_min, money_min) ==
    (IF sig.has_brand THEN 1 ELSE 0) + (IF sig.has_structure THEN 1 ELSE 0)
    + (IF sig.has_last4 THEN 1 ELSE 0) + (IF sig.date_hits >= date_min THEN 1 ELSE 0)
    + (IF sig.money_hits >= money_min THEN 1 ELSE 0)

\* the two tests of lines 90-93 in the other order
GateVerdict_SignalsFirst(total, score, lv) ==
    IF score < 2 /\ lv = 0 THEN MsgNoSignals
    ELSE IF total = 0 THEN MsgNoValid
    ELSE MsgOK

\* the signal test made at every level
GateVerdict_AllLevels(total, score, lv) ==
    IF total = 0 THEN MsgNoValid
    ELSE IF score < 2 THEN MsgNoSignals
    ELSE MsgOK

\* lines 90-93: the reason the evaluation ends with
GateVerdict(total, score, lv) ==
    IF total = 0 THEN MsgNoValid
    ELSE IF score < 2 /\ lv = 0 THEN MsgNoSignals
    ELSE MsgOK

summary_fields == {"previous_balance", "new_balance", "payments", "credits", "purchases"}

\* only a string coerced
CoerceSummaryValue_StringsOnly(v) ==
    IF v \in {Null, StrV("")} THEN v
    ELSE IF v.ty = "str" /\ PyFloat(v).ok THEN PyFloat(v).v
    ELSE FloatV(FALSE, 0, 0)

\* null and the empty string defaulted like a value that does not coerce
CoerceSummaryValue_Defaulting(v) ==
    IF v \notin {Null, StrV("")} /\ PyFloat(v).ok THEN PyFloat(v).v
    ELSE FloatV(FALSE, 0, 0)

\* lines 99-101 on one value of the summary
CoerceSummaryValue(v) ==
    IF v \in {Null, StrV("")} THEN v
    ELSE IF PyFloat(v).ok THEN PyFloat(v).v
    ELSE FloatV(FALSE, 0, 0)

\* lines 96-102: parsed after the summary fields are coerced
CoerceSummary(p) ==
    LET summary == Get(p.d, "summary", DictV(EmptyDict))
    IN  IF IsDict(summary)
        THEN DictV(Put(p.d, "summary",
                 DictV([k \in DOMAIN summary.d |->
                          IF k \in summary_fields THEN CoerceSummaryValue(summary.d[k])
                          ELSE summary.d[k]])))
        ELSE p

RECURSIVE CleanedMap(_, _, _, _, _)
\* lines 59-84: cleaned_map after the loop has been through the holders
\* todo of tx_map, with cmap collected so far
CleanedMap(tx_map, todo, cmap, k, allowed) ==
    IF todo = {} THEN cmap
    ELSE LET holder == CHOOSE h \in todo : TRUE
             txs == tx_map[holder]
             skipped == \/ HolderUnknown(k.require_known_holder, allowed, holder)
                        \/ ~IsList(txs)
                        \/ txs.items = <<>>
         IN  CleanedMap(tx_map, todo \ {holder},
                        IF skipped THEN cmap
                        ELSE AddCleaned(cmap, holder, CleanedTxs(txs.items, k.require_both_dates)),
                        k, allowed)

RECURSIVE TotalTx(_)
\* line 84: total_tx, the transactions of cleaned_map
TotalTx(cmap) ==
    IF DOMAIN cmap = {} THEN 0
    ELSE LET h == CHOOSE x \in DOMAIN cmap : TRUE
         IN  Len(cmap[h].items) + TotalTx([x \in (DOMAIN cmap) \ {h} |-> cmap[x]])

\* lines 47-104: what a call of quality_gate returns
quality_gate(text, cand, lv) ==
    IF ~IsDict(cand)
    THEN [ok |-> FALSE, msg |-> MsgNotDict, cleaned |-> DictV(EmptyDict)]
    ELSE IF ~IsDict(Get(cand.d, TxKey, DictV(EmptyDict)))
    THEN [ok |-> FALSE, msg |-> MsgMissingMap, cleaned |-> DictV(EmptyDict)]
    ELSE LET lvl == ClampLevel(lv)
             k == StrictnessKnobs(lvl)
             tx_map == Get(cand.d, TxKey, DictV(EmptyDict)).d
             cmap == CleanedMap(tx_map, DOMAIN tx_map, EmptyDict, k,
                                _extract_possible_cardholders(text))
             score == SignalScore(_source_signals(text), k.min_date_hits, k.min_money_hits)
             msg == GateVerdict(TotalTx(cmap), score, lvl)
         IN  IF msg = MsgOK
             THEN [ok |-> TRUE, msg |-> MsgOK,
                   cleaned |-> CoerceSummary(DictV(Put(cand.d, TxKey, DictV(cmap))))]
             ELSE [ok |-> FALSE, msg |-> msg, cleaned |-> DictV(EmptyDict)]

(***************************************************************************)
(* data_combiner.combine_parsed_data                                       *)
(*                                                                         *)
(* A number of the aggregate that is summed from amounts or from summary   *)
(* fields is held in hundredths (12.5 is 1250); total_statements,          *)
(* total_files_processed and a holder's total_transactions are counts.    *)
(* Keys of the aggregate's maps are strings.                               *)
(***************************************************************************)
\* a value Python adds to a number: int, float or bool
Numeric(v) == v.ty \in {"int", "float", "bool"}

\* the number, in hundredths
Hundredths(v) ==
    CASE v.ty = "int" -> v.n * 100
      [] v.ty = "float" -> (IF v.neg THEN -1 ELSE 1) * (v.whole * 100 + v.frac)
      [] v.ty = "bool" -> IF v.b THEN 100 ELSE 0

\* a value that can be a dict key
Hashable(v) == v.ty \notin {"list", "dict"}

\* a file json.load cannot give the content of
Unreadable == [ty |-> "unreadable"]

UnknownBank == "Unknown Bank"

Uncategorized == "Uncategorized"

\* lines 10-23
NewCombined ==
    [combined_transactions_by_cardholder |-> EmptyDict,
     individual_statements |-> <<>>,
     combined_summary |-> [total_files_processed |-> 0, total_transactions |-> 0,
                           total_amount |-> 0, total_purchases |-> 0, total_payments |-> 0],
     summary_by_bank |-> EmptyDict,
     summary_by_cardholder |-> EmptyDict,
     category_totals |-> EmptyDict]

\* lines 42-49
NewBankSummary ==
    [total_statements |-> 0, total_transactions |-> 0, total_amount |-> 0,
     total_purchases |-> 0, total_payments |-> 0, cardholders |-> <<>>]

\* lines 79-84
NewBankOfHolder ==
    [total_transactions |-> 0, total_amount |-> 0, total_purchases |-> 0, total_payments |-> 0]

\* lines 64-71
NewHolderSummary ==
    [total_transactions |-> 0, total_amount |-> 0, total_purchases |-> 0, total_payments |-> 0,
     banks |-> EmptyDict, category_totals |-> EmptyDict]

\* lines 87-90
NoTransactions == [n |-> 0, total |-> 0, purchases |-> 0, payments |-> 0]

AddTo_Replacing(d, key, x) == Put(d, key, x)

\* d[key] += x after d[key] has been set to 0.0 if it was missing
AddTo(d, key, x) == Put(d, key, Get(d, key, 0) + x)

CombineTransaction_Signed(c, cardholder, transaction, acc) ==
    LET amount == Get(transaction.d, "amount", IntV(0))
        category == Get(transaction.d, "category", StrV(Uncategorized))
        x == Hundredths(amount)
    IN  IF ~Numeric(amount) THEN [c |-> c, acc |-> acc, raised |-> TRUE]
        ELSE IF ~Hashable(category) THEN [c |-> c, acc |-> acc, raised |-> TRUE]
        ELSE [c |-> [c EXCEPT
                       !.summary_by_cardholder[cardholder].category_totals =
                           AddTo(@, category.s, x),
                       !.category_totals = AddTo(@, category.s, x)],
              acc |-> [n |-> acc.n + 1,
                       total |-> acc.total + x,
                       purchases |-> acc.purchases + (IF x < 0 THEN 0 ELSE x),
                       payments |-> acc.payments + (IF x < 0 THEN x ELSE 0)],
              raised |-> FALSE]

CombineTransaction_Unsigned(c, cardholder, transaction, acc) ==
    LET amount == Get(transaction.d, "amount", IntV(0))
        category == Get(transaction.d, "category", StrV(Uncategorized))
        x == Hundredths(amount)
    IN  IF ~Numeric(amount) THEN [c |-> c, acc |-> acc, raised |-> TRUE]
        ELSE IF ~Hashable(category) THEN [c |-> c, acc |-> acc, raised |-> TRUE]
        ELSE [c |-> [c EXCEPT
                       !.summary_by_cardholder[cardholder].category_totals =
                           AddTo(@, category.s, x),
                       !.category_totals = AddTo(@, category.s, Abs(x))],
              acc |-> [n |-> acc.n + 1,
                       total |-> acc.total + x,
                       purchases |-> acc.purchases + (IF x < 0 THEN 0 ELSE x),
                       payments |-> acc.payments + (IF x < 0 THEN -x ELSE 0)],
              raised |-> FALSE]

\* lines 94-114 on one dict of the list: the counters acc of the holder and
\* the aggregate c after it, and whether an exception ended it
CombineTransaction(c, cardholder, transaction, acc) ==
    LET amount == Get(transaction.d, "amount", IntV(0))
        category == Get(transaction.d, "category", StrV(Uncategorized))
        x == Hundredths(amount)
    IN  IF ~Numeric(amount) THEN [c |-> c, acc |-> acc, raised |-> TRUE]
        ELSE IF ~Hashable(category) THEN [c |-> c, acc |-> acc, raised |-> TRUE]
        ELSE [c |-> [c EXCEPT
                       !.summary_by_cardholder[cardholder].category_totals =
                           AddTo(@, category.s, x),
                       !.category_totals = AddTo(@, category.s, x)],
              acc |-> [n |-> acc.n + 1,
                       total |-> acc.total + x,
                       purchases |-> acc.purchases + (IF x < 0 THEN 0 ELSE x),
                       payments |-> acc.payments + (IF x < 0 THEN -x ELSE 0)],
              raised |-> FALSE]

RECURSIVE CombineTransactions(_, _, _, _)
\* lines 92-114: the loop over the transactions of one holder
CombineTransactions(c, cardholder, transactions, acc) ==
    IF transactions = <<>> THEN [c |-> c, acc |-> acc, raised |-> FALSE]
    ELSE IF ~IsDict(Head(transactions))
    THEN CombineTransactions(c, cardholder, Tail(transactions), acc)
    ELSE LET r == CombineTransaction(c, cardholder, Head(transactions), acc)
         IN  IF r.raised THEN r
             ELSE CombineTransactions(r.c, cardholder, Tail(transactions), r.acc)

AddHolderTotals_EveryBank(c, bank_name, cardholder, acc) ==
    LET add(t) == [t EXCEPT !.total_transactions = @ + acc.n,
                            !.total_amount = @ + acc.total,
                            !.total_purchases = @ + acc.purchases,
                            !.total_payments = @ + acc.payments]
        h == add(c.summary_by_cardholder[cardholder])
    IN  [c EXCEPT !.summary_by_cardholder[cardholder] =
                      [h EXCEPT !.banks = [b \in DOMAIN @ |-> add(@[b])]]]

\* lines 117-126: the counters of one holder added to the holder's totals
AddHolderTotals(c, bank_name, cardholder, acc) ==
    LET add(t) == [t EXCEPT !.total_transactions = @ + acc.n,
                            !.total_amount = @ + acc.total,
                            !.total_purchases = @ + acc.purchases,
                            !.total_payments = @ + acc.payments]
        h == add(c.summary_by_cardholder[cardholder])
    IN  [c EXCEPT !.summary_by_cardholder[cardholder] =
                      [h EXCEPT !.banks[bank_name] = add(@)]]

CombineHolder_KeepingEmpty(c, bank_name, cardholder, transactions) ==
    IF ~IsList(transactions) THEN [c |-> c, raised |-> FALSE]
    ELSE LET merged ==
                 [c EXCEPT
                    !.combined_transactions_by_cardholder =
                        Put(@, cardholder, Get(@, cardholder, <<>>) \o transactions.items),
                    !.summary_by_cardholder =
                        IF cardholder \in DOMAIN @ THEN @
                        ELSE Put(@, cardholder, NewHolderSummary),
                    !.summary_by_bank[bank_name].cardholders =
                        IF \E k \in 1..Len(@) : @[k] = cardholder THEN @
                        ELSE Append(@, cardholder)]
             started ==
                 [merged EXCEPT
                    !.summary_by_cardholder[cardholder].banks =
                        IF bank_name \in DOMAIN @ THEN @
                        ELSE Put(@, bank_name, NewBankOfHolder)]
             r == CombineTransactions(started, cardholder, transactions.items, NoTransactions)
         IN  IF r.raised THEN [c |-> r.c, raised |-> TRUE]
             ELSE [c |-> AddHolderTotals(r.c, bank_name, cardholder, r.acc), raised |-> FALSE]

\* lines 55-126 on one item of the holder map
CombineHolder(c, bank_name, cardholder, transactions) ==
    IF ~IsList(transactions) \/ transactions.items = <<>> THEN [c |-> c, raised |-> FALSE]
    ELSE LET merged ==
                 [c EXCEPT
                    !.combined_transactions_by_cardholder =
                        Put(@, cardholder, Get(@, cardholder, <<>>) \o transactions.items),
                    !.summary_by_cardholder =
                        IF cardholder \in DOMAIN @ THEN @
                        ELSE Put(@, cardholder, NewHolderSummary),
                    !.summary_by_bank[bank_name].cardholders =
                        IF \E k \in 1..Len(@) : @[k] = cardholder THEN @
                        ELSE Append(@, cardholder)]
             started ==
                 [merged EXCEPT
                    !.summary_by_cardholder[cardholder].banks =
                        IF bank_name \in DOMAIN @ THEN @
                        ELSE Put(@, bank_name, NewBankOfHolder)]
             r == CombineTransactions(started, cardholder, transactions.items, NoTransactions)
         IN  IF r.raised THEN [c |-> r.c, raised |-> TRUE]
             ELSE [c |-> AddHolderTotals(r.c, bank_name, cardholder, r.acc), raised |-> FALSE]

RECURSIVE CombineHolders(_, _, _, _)
\* lines 53-126: the loop over the holder map, in the order of its keys
CombineHolders(c, bank_name, tx_map, order) ==
    IF order = <<>> THEN [c |-> c, raised |-> FALSE]
    ELSE LET r == CombineHolder(c, bank_name, Head(order), tx_map[Head(order)])
         IN  IF r.raised THEN r
             ELSE CombineHolders(r.c, bank_name, tx_map, Tail(order))

\* lines 130-142: the summary of the statement added to its bank and to the
\* combined summary, up to the first field that is not a number
CombineSummary(c, bank_name, summary) ==
    LET field(k) == Get(summary.d, k, IntV(0))
        counted == [c EXCEPT !.summary_by_bank[bank_name].total_statements = @ + 1]
    IN  IF ~Numeric(field("total_transactions")) THEN counted
        ELSE IF ~Numeric(field("total_amount"))
        THEN [counted EXCEPT !.summary_by_bank[bank_name].total_transactions =
                                 @ + Hundredths(field("total_transactions"))]
        ELSE IF ~Numeric(field("purchases"))
        THEN [counted EXCEPT !.summary_by_bank[bank_name].total_transactions =
                                 @ + Hundredths(field("total_transactions")),
                             !.summary_by_bank[bank_name].total_amount =
                                 @ + Hundredths(field("total_amount"))]
        ELSE IF ~Numeric(field("payments"))
        THEN [counted EXCEPT !.summary_by_bank[bank_name].total_transactions =
                                 @ + Hundredths(field("total_transactions")),
                             !.summary_by_bank[bank_name].total_amount =
                                 @ + Hundredths(field("total_amount")),
                             !.summary_by_bank[bank_name].total_purchases =
                                 @ + Hundredths(field("purchases"))]
        ELSE [counted EXCEPT !.summary_by_bank[bank_name].total_transactions =
                                 @ + Hundredths(field("total_transactions")),
                             !.summary_by_bank[bank_name].total_amount =
                                 @ + Hundredths(field("total_amount")),
                             !.summary_by_bank[bank_name].total_purchases =
                                 @ + Hundredths(field("purchases")),
                             !.summary_by_bank[bank_name].total_payments =
                                 @ + Hundredths(field("payments")),
                             !.combined_summary.total_files_processed = @ + 1,
                             !.combined_summary.total_transactions =
                                 @ + Hundredths(field("total_transactions")),
                             !.combined_summary.total_amount =
                                 @ + Hundredths(field("total_amount")),
                             !.combined_summary.total_purchases =
                                 @ + Hundredths(field("purchases")),
                             !.combined_summary.total_payments =
                                 @ + Hundredths(field("payments"))]

\* lines 26-145: one iteration of the loop over the files; file is the stem
\* of the path, the content json.load gives and the order of the keys of its
\* holder map.  An exception ends the iteration and leaves what it has done.
CombineFile(c, file) ==
    IF file.data = Unreadable THEN c
    ELSE
    LET data == file.data
        listed == [c EXCEPT !.individual_statements =
                                Append(@, [filename |-> file.filename, data |-> data])]
    IN  IF ~IsDict(data) THEN listed
        ELSE
        LET summary == Get(data.d, "summary", DictV(EmptyDict))
        IN  IF ~IsDict(summary) THEN listed
            ELSE
            LET bank == Get(summary.d, "bank_name", StrV(UnknownBank))
            IN  IF ~Hashable(bank) THEN listed
                ELSE
                LET bank_name == bank.s
                    with_bank ==
                        [listed EXCEPT !.summary_by_bank =
                            IF bank_name \in DOMAIN @ THEN @
                            ELSE Put(@, bank_name, NewBankSummary)]
                    merged ==
                        IF TxKey \notin DOMAIN data.d THEN [c |-> with_bank, raised |-> FALSE]
                        ELSE IF ~IsDict(data.d[TxKey]) THEN [c |-> with_bank, raised |-> TRUE]
                        ELSE CombineHolders(with_bank, bank_name, data.d[TxKey].d, file.order)
                IN  IF merged.raised THEN merged.c
                    ELSE IF "summary" \notin DOMAIN data.d THEN merged.c
                    ELSE CombineSummary(merged.c, bank_name, summary)

RECURSIVE combine_parsed_data(_)
\* lines 8-147 on the files, each read as it is reached
combine_parsed_data(files) ==
    IF files = <<>> THEN NewCombined
    ELSE CombineFile(combine_parsed_data(SubSeq(files, 1, Len(files) - 1)), files[Len(files)])

(***************************************************************************)
(* The inputs: raw texts and candidate parses                              *)
(***************************************************************************)
MaxDateTokens == 5

MaxMoneyTokens == 3

MaxHolders == 2

MaxTxs == 2

RECURSIVE Rep(_, _)
Rep(s, n) == IF n = 0 THEN "" ELSE s \o Rep(s, n - 1)

Headers == {"", "Citi", "Citi Statement"}

NameBlocks ==
    {"", "\nAL BO\nCard ending in 1234", "\nCARDHOLDER SUMMARY\nAL BO",
     "\nPRIMARY ACCOUNT HOLDER\nAccount ending in 123",
     "\nCY DE\nCard ending in 5678", "\nCard ending in 1234"}

\* a first line, a block of names, then dates date lines and money money lines
Text(header, block, dates, money) ==
    header \o block \o Rep("\n01/02", dates) \o Rep("\n$1.00", money)

\* the texts that differ in their signals
SignalTexts ==
    {Text(h, b, d, m) : h \in Headers, b \in {"", "\nAL BO\nCard ending in 1234"},
                        d \in 0..MaxDateTokens, m \in 0..MaxMoneyTokens}

\* the texts that differ in their names
NameTexts ==
    {Text(h, b, 0, 0) : h \in {"", "Citi Statement"}, b \in NameBlocks}
    \cup {"AL BO\nCard ending in 1234"}

StrictText == "Citi Statement\nAL BO\nCard ending in 1234"

RawTexts == SignalTexts \cup NameTexts

\* a key the dict does not have
Missing == [ty |-> "missing"]

\* the dict of the keys whose value is not Missing
MkDict(f) == DictV([k \in {x \in DOMAIN f : f[x] # Missing} |-> f[k]])

Tx(sale, post, desc, amt) ==
    MkDict([sale_date |-> sale, post_date |-> post, description |-> desc, amount |-> amt])

GoodTx == Tx(StrV("01/02"), StrV("01/03"), StrV("COFFEE"), IntV(12))

ZeroTx == Tx(StrV("01/02"), StrV("01/03"), StrV("COFFEE"), StrV("0"))

DateValues == {StrV("01/02"), StrV(" 1/2/24 "), StrV("13-01"), Null, Missing}

DescValues ==
    {StrV("ab"), StrV(" a "), StrV(""), StrV("Total Due"), StrV("Wholesale"), StrV("abc"),
     Null, Missing}

AmountValues ==
    {FloatV(FALSE, 12, 50), StrV("12.50"), StrV(" -20 "), StrV("0"), IntV(0), StrV("abc"),
     Null, Missing, BoolV(TRUE), IntV(100000000), IntV(-100000000), StrV("99999999.99"),
     NonFinite("nan"), StrV("inf"), ListV(<<>>)}

\* the transactions a one-element list is drawn from
TxValues ==
    {Tx(s, p, StrV("COFFEE"), IntV(12)) : s \in DateValues, p \in DateValues}
    \cup {Tx(StrV("01/02"), StrV("01/03"), d, IntV(12)) : d \in DescValues}
    \cup {Tx(StrV("01/02"), StrV("01/03"), StrV("COFFEE"), a) : a \in AmountValues}
    \cup {Tx(StrV("01/02"), StrV(""), StrV("Total Due"), IntV(12)),
          Tx(Null, StrV("1/3/2024"), StrV("COFFEE"), StrV("0")),
          StrV("x")}

\* the transactions a longer list is drawn from
CoreTxValues ==
    {GoodTx, ZeroTx, StrV("x"),
     Tx(StrV("01/02"), Missing, StrV("TEA"), StrV("-3.5")),
     Tx(StrV(""), StrV(""), StrV("COFFEE"), IntV(12)),
     Tx(StrV("01/02"), StrV("01/03"), StrV("ab"), IntV(12)),
     Tx(StrV("01/02"), StrV("01/03"), StrV("Total"), IntV(12))}

RECURSIVE Lists(_, _)
\* the lists of n elements of S
Lists(S, n) == IF n = 0 THEN {<<>>} ELSE {<<x>> \o q : x \in S, q \in Lists(S, n - 1)}

TxLists ==
    {<<t>> : t \in TxValues} \cup UNION {Lists(CoreTxValues, n) : n \in 2..MaxTxs}

HolderNames == {"AL BO", "Al Bo", "ALBO", "CY DE"}

\* what a holder of the holder map may be mapped to
HolderValues == {ListV(<<GoodTx>>), ListV(<<ZeroTx>>), ListV(<<>>), Null}

HolderMaps ==
    UNION {[S -> HolderValues] : S \in {X \in SUBSET HolderNames : Cardinality(X) <= MaxHolders}}

GoodSummary == DictV([bank_name |-> StrV("Citi"), new_balance |-> StrV("100.50")])

Parse(map) == DictV([transactions_by_cardholder |-> DictV(map)])

Malformed ==
    {Null, ListV(<<>>), DictV(EmptyDict), DictV([summary |-> GoodSummary]),
     DictV([transactions_by_cardholder |-> Null]),
     DictV([transactions_by_cardholder |-> ListV(<<GoodTx>>), summary |-> GoodSummary])}

GoodParse ==
    DictV([transactions_by_cardholder |-> DictV([h \in {"AL BO"} |-> ListV(<<GoodTx>>)]),
           summary |-> GoodSummary])

\* what a numeric field of the summary may hold
SummaryFieldValues ==
    {StrV("100.50"), IntV(7), FloatV(TRUE, 3, 25), BoolV(TRUE), StrV("nan"),
     StrV("abc"), ListV(<<>>), StrV(""), Null, Missing}

\* what the candidate may hold under "summary"
Summaries ==
    {MkDict([bank_name |-> StrV("Citi"), previous_balance |-> a, payments |-> b]) :
        a \in SummaryFieldValues, b \in SummaryFieldValues}
    \cup {Null, StrV("x"), ListV(<<>>)}

\* the candidates that differ in their summary
SummaryParses ==
    {DictV([transactions_by_cardholder |-> DictV([h \in {"AL BO"} |-> ListV(<<GoodTx>>)]),
            summary |-> sm]) : sm \in Summaries}

\* the (raw text, candidate parse) pairs an evaluation starts from: the texts
\* that differ in their signals with a few candidates, the texts that differ
\* in their names with every holder map, two texts with every list of
\* transactions, and one text with every summary
Inputs ==
    {[text |-> t, cand |-> c] :
        t \in SignalTexts, c \in Malformed \cup {GoodParse, Parse([h \in {"AL BO"} |-> ListV(<<ZeroTx>>)])}}
    \cup {[text |-> t, cand |-> Parse(m)] : t \in NameTexts, m \in HolderMaps}
    \cup {[text |-> t, cand |-> Parse([h \in {"AL BO"} |-> ListV(q)])] :
            t \in {"", StrictText}, q \in TxLists}
    \cup {[text |-> StrictText, cand |-> c] : c \in SummaryParses}

RetryLevels == 0..MAX_RETRIES

(***************************************************************************)
(* The state of one evaluation                                             *)
(***************************************************************************)
VARIABLES
    raw_text,               \* the argument raw_text
    parsed,                 \* the argument parsed, an object the gate changes in place
    retry_level,            \* the argument retry_level
    candidate,              \* parsed as it was passed in
    pc,                     \* "idle", "entry", "loop" (lines 61-84) or "returned"
    level,
    min_date_hits,
    min_money_hits,
    require_both_dates,
    require_known_holder,
    allowed_names,
    cleaned_map,
    total_tx,
    pending,                \* the holders the loop of line 61 has yet to reach
    uncorroborated,         \* the holders line 62 skipped
    signal_score,
    result,                 \* the tuple returned: ok, msg and the cleaned parse
    calls,                  \* the evaluations that have returned before this one
    first,                  \* what the first evaluation returned
    individual_files,       \* combine_parsed_data: the argument, each file as it reads
    files_done,             \* combine_parsed_data: the files the loop has been through
    combined,               \* combine_parsed_data: the aggregate being built
    combine_pc,             \* "idle", "loop" (lines 25-145) or "returned"
    statement_files,        \* run_parsing_agent: the argument, each file a name, a stem and a text
    file_i,                 \* run_parsing_agent: the position in statement_files of the file in hand
    attempt,                \* the loop variable of line 40
    success,                \* what the last call of process_single_statement returned first
    error_msg,              \* and second
    last_error,             \* null or a string
    successful_files,       \* the paths of the parsed files, in order
    failed_files,           \* the pairs (filename, last_error), in order
    output_dir,             \* the parsed files written: path to content
    attempts,               \* the calls made for the file in hand: level, success, error_msg
    batch_result,           \* what run_parsing_agent returns
    agent_pc,               \* "idle", "enter", "file", "attempt", "gate", "after", "done"
    executor,               \* the code executor of the last call: "none", "running", "stopped"
    work_file,              \* the content of temp/statement.txt
    procs                   \* calls of process_single_statement running side by side

gate_vars ==
    <<raw_text, parsed, retry_level, candidate, pc, level, min_date_hits, min_money_hits,
      require_both_dates, require_known_holder, allowed_names, cleaned_map, total_tx,
      pending, uncorroborated, signal_score, result>>

combine_vars == <<individual_files, files_done, combined, combine_pc>>

agent_vars ==
    <<statement_files, file_i, attempt, success, error_msg, last_error, successful_files,
      failed_files, output_dir, attempts, batch_result, agent_pc, executor>>

side_vars == <<work_file, procs>>

\* what an evaluation of the gate does not touch
beyond_gate == <<calls, first, combine_vars, agent_vars, side_vars>>

vars == <<gate_vars, beyond_gate>>

args == <<raw_text, retry_level, candidate>>

knobs == <<level, min_date_hits, min_money_hits, require_both_dates, require_known_holder>>

NoResult == [ok |-> FALSE, msg |-> "", cleaned |-> Null]

\* the gate called with one of the inputs of the set given
GateStart(inputs) ==
    /\ \E in \in inputs :
          /\ raw_text = in.text
          /\ parsed = in.cand
          /\ candidate = in.cand
    /\ retry_level \in RetryLevels
    /\ pc = "entry"
    /\ level = 0
    /\ min_date_hits = 0
    /\ min_money_hits = 0
    /\ require_both_dates = FALSE
    /\ require_known_holder = FALSE
    /\ allowed_names = {}
    /\ cleaned_map = EmptyDict
    /\ total_tx = 0
    /\ pending = {}
    /\ uncorroborated = {}
    /\ signal_score = 0
    /\ result = NoResult

\* no evaluation has returned yet
NoCallYet ==
    /\ calls = 0
    /\ first = NoResult

\* combine_parsed_data is not running
CombineIdle ==
    /\ individual_files = <<>>
    /\ files_done = 0
    /\ combined = NewCombined
    /\ combine_pc = "idle"

\* run_parsing_agent is not running
AgentIdle ==
    /\ statement_files = <<>>
    /\ file_i = 0
    /\ attempt = 0
    /\ success = FALSE
    /\ error_msg = ""
    /\ last_error = Null
    /\ successful_files = <<>>
    /\ failed_files = <<>>
    /\ output_dir = EmptyDict
    /\ attempts = <<>>
    /\ batch_result = Null
    /\ agent_pc = "idle"
    /\ executor = "none"

\* no call of process_single_statement has written temp/statement.txt and
\* none is running beside another
SideIdle ==
    /\ work_file = Missing
    /\ procs = <<>>

Init == GateStart(Inputs) /\ NoCallYet /\ CombineIdle /\ AgentIdle /\ SideIdle

Return(ok, msg, cleaned) ==
    /\ result' = [ok |-> ok, msg |-> msg, cleaned |-> cleaned]
    /\ pc' = "returned"

\* lines 48-59: the shape checks, the knobs and the allow-list
GateEntry ==
    /\ pc = "entry"
    /\ \/ /\ ~IsDict(parsed)
          /\ Return(FALSE, MsgNotDict, DictV(EmptyDict))
          /\ UNCHANGED <<knobs, allowed_names, pending>>
       \/ /\ IsDict(parsed)
          /\ ~IsDict(Get(parsed.d, TxKey, DictV(EmptyDict)))
          /\ Return(FALSE, MsgMissingMap, DictV(EmptyDict))
          /\ UNCHANGED <<knobs, allowed_names, pending>>
       \/ /\ IsDict(parsed)
          /\ IsDict(Get(parsed.d, TxKey, DictV(EmptyDict)))
          /\ level' = ClampLevel(retry_level)
          /\ min_date_hits' = StrictnessKnobs(level').min_date_hits
          /\ min_money_hits' = StrictnessKnobs(level').min_money_hits
          /\ require_both_dates' = StrictnessKnobs(level').require_both_dates
          /\ require_known_holder' = StrictnessKnobs(level').require_known_holder
          /\ allowed_names' = _extract_possible_cardholders(raw_text)
          /\ pending' = DOMAIN Get(parsed.d, TxKey, DictV(EmptyDict)).d
          /\ pc' = "loop"
          /\ UNCHANGED result
    /\ UNCHANGED <<args, parsed, cleaned_map, total_tx, uncorroborated, signal_score>>
    /\ UNCHANGED beyond_gate

\* lines 61-84: one iteration of the loop over tx_map.items()
GateHolder ==
    /\ pc = "loop"
    /\ \E holder \in pending :
          LET tx_map == parsed.d[TxKey].d
              txs == tx_map[holder]
              cleaned_txs == CleanedTxs(txs.items, require_both_dates)
              changed == ListV(SanitizedList(txs.items, require_both_dates))
          IN  /\ pending' = pending \ {holder}
              /\ IF HolderUnknown(require_known_holder, allowed_names, holder)
                 THEN /\ uncorroborated' = uncorroborated \cup {holder}
                      /\ UNCHANGED <<parsed, cleaned_map, total_tx>>
                 ELSE IF ~IsList(txs) \/ txs.items = <<>>
                 THEN UNCHANGED <<parsed, cleaned_map, total_tx, uncorroborated>>
                 ELSE /\ parsed' = DictV(Put(parsed.d, TxKey, DictV(Put(tx_map, holder, changed))))
                      /\ cleaned_map' = AddCleaned(cleaned_map, holder, cleaned_txs)
                      /\ total_tx' = total_tx + Len(cleaned_txs)
                      /\ UNCHANGED uncorroborated
    /\ UNCHANGED <<args, pc, knobs, allowed_names, signal_score, result>>
    /\ UNCHANGED beyond_gate

\* lines 86-104: the holder map replaced, the signals, the verdict, the summary
GateFinish ==
    /\ pc = "loop"
    /\ pending = {}
    /\ LET replaced == DictV(Put(parsed.d, TxKey, DictV(cleaned_map)))
           score == SignalScore(_source_signals(raw_text), min_date_hits, min_money_hits)
           msg == GateVerdict(total_tx, score, level)
       IN  /\ signal_score' = score
           /\ IF msg = MsgOK
              THEN /\ parsed' = CoerceSummary(replaced)
                   /\ Return(TRUE, MsgOK, parsed')
              ELSE /\ parsed' = replaced
                   /\ Return(FALSE, msg, DictV(EmptyDict))
    /\ UNCHANGED <<args, knobs, allowed_names, cleaned_map, total_tx, pending, uncorroborated>>
    /\ UNCHANGED beyond_gate

Next == GateEntry \/ GateHolder \/ GateFinish

Spec == Init /\ [][Next]_vars

(***************************************************************************)
(* The gate evaluated twice on the same triple                             *)
(***************************************************************************)
\* the inputs of the evaluations that are repeated: two texts with every
\* list of transactions, one text with every summary and every candidate
\* that lacks a holder map
TwiceInputs ==
    {[text |-> t, cand |-> Parse([h \in {"AL BO"} |-> ListV(q)])] :
        t \in {"", StrictText}, q \in TxLists}
    \cup {[text |-> StrictText, cand |-> c] : c \in SummaryParses \cup Malformed}
    \cup {[text |-> StrictText, cand |-> Parse(m)] : m \in HolderMaps}

\* quality_gate called again with the same raw_text and retry_level, and
\* with the candidate object as the first call left it or with a candidate
\* equal to the one the first call was given
GateAgain ==
    /\ pc = "returned"
    /\ calls = 0
    /\ calls' = 1
    /\ first' = result
    /\ parsed' \in {parsed, candidate}
    /\ candidate' = parsed'
    /\ pc' = "entry"
    /\ level' = 0
    /\ min_date_hits' = 0
    /\ min_money_hits' = 0
    /\ require_both_dates' = FALSE
    /\ require_known_holder' = FALSE
    /\ allowed_names' = {}
    /\ cleaned_map' = EmptyDict
    /\ total_tx' = 0
    /\ pending' = {}
    /\ uncorroborated' = {}
    /\ signal_score' = 0
    /\ result' = NoResult
    /\ UNCHANGED <<raw_text, retry_level, combine_vars, agent_vars, side_vars>>

TwiceInit == GateStart(TwiceInputs) /\ NoCallYet /\ CombineIdle /\ AgentIdle /\ SideIdle

TwiceNext == GateEntry \/ GateHolder \/ GateFinish \/ GateAgain

TwiceSpec == TwiceInit /\ [][TwiceNext]_vars

(***************************************************************************)
(* combine_parsed_data called on a list of files                           *)
(***************************************************************************)
MaxFiles == 2

\* a transaction of a parsed file as the combiner reads it
CTx(amt, cat) == MkDict([amount |-> amt, category |-> cat])

Purchase == CTx(IntV(100), StrV("Food"))

Payment == CTx(IntV(-20), Missing)

Refund == CTx(FloatV(TRUE, 50, 25), StrV("Food"))

\* the summary of a parsed file
CSummary(bank, n, total, purchases, payments) ==
    MkDict([bank_name |-> bank, total_transactions |-> n, total_amount |-> total,
            purchases |-> purchases, payments |-> payments])

\* a parsed file: its content and the order of the keys of its holder map
CDoc(stem, summary, tx_map, order) ==
    [filename |-> stem,
     data |-> MkDict([summary |-> summary, transactions_by_cardholder |-> tx_map]),
     order |-> order]

Holders1(h, txs) == DictV(h :> ListV(txs))

Holders2(h1, txs1, h2, txs2) == DictV(h1 :> txs1 @@ h2 :> txs2)

\* the files a call can be given: what the gate writes, what it leaves
\* unchecked (the summary, the category, a file edited or written by hand),
\* and what the combiner itself defends against or fails on
CombineDocs ==
    { CDoc("citi_jan", CSummary(StrV("Citi"), IntV(1), IntV(100), FloatV(FALSE, 100, 0), IntV(0)),
           Holders1("AL BO", <<Purchase>>), <<"AL BO">>),
      CDoc("chase_jan", CSummary(StrV("Chase"), IntV(1), IntV(-20), IntV(0), IntV(20)),
           Holders1("AL BO", <<Payment>>), <<"AL BO">>),
      CDoc("citi_feb", CSummary(StrV("Citi"), IntV(3), FloatV(FALSE, 149, 75),
                                IntV(200), FloatV(FALSE, 50, 25)),
           Holders2("AL BO", ListV(<<Purchase, Refund>>), "CY DE", ListV(<<Purchase>>)),
           <<"AL BO", "CY DE">>),
      CDoc("citi_mar", CSummary(StrV("Citi"), IntV(2), IntV(80), IntV(100), IntV(20)),
           Holders2("AL BO", ListV(<<Purchase>>), "CY DE", ListV(<<Payment>>)),
           <<"CY DE", "AL BO">>),
      \* no bank name in the summary
      CDoc("nobank", CSummary(Missing, IntV(1), IntV(-20), IntV(0), IntV(20)),
           Holders1("CY DE", <<Payment>>), <<"CY DE">>),
      \* no summary at all
      CDoc("nosummary", Missing, Holders1("AL BO", <<Purchase>>), <<"AL BO">>),
      \* holders whose value is an empty list or not a list, and a list of
      \* something that is not a transaction
      CDoc("empties", CSummary(StrV("Citi"), IntV(0), IntV(0), IntV(0), IntV(0)),
           Holders2("AL BO", ListV(<<>>), "CY DE", Null), <<"AL BO", "CY DE">>),
      CDoc("strays", CSummary(StrV("Chase"), IntV(0), IntV(0), IntV(0), IntV(0)),
           Holders2("EV FA", ListV(<<StrV("x")>>), "CY DE", ListV(<<>>)), <<"EV FA", "CY DE">>),
      \* an amount that cannot be added, after a transaction that can
      CDoc("badamount", CSummary(StrV("Citi"), IntV(2), IntV(100), IntV(100), IntV(0)),
           Holders2("AL BO", ListV(<<Purchase, CTx(StrV("abc"), StrV("Food"))>>),
                    "CY DE", ListV(<<Payment>>)),
           <<"AL BO", "CY DE">>),
      \* a summary field the gate left as null
      CDoc("nullfield", CSummary(StrV("Chase"), IntV(1), Null, FloatV(FALSE, 100, 0), IntV(0)),
           Holders1("CY DE", <<Purchase>>), <<"CY DE">>),
      \* a summary that is not a mapping, a content that is not a mapping, a
      \* file with no holder map, a file that cannot be read
      CDoc("strsummary", StrV("x"), Holders1("AL BO", <<Purchase>>), <<"AL BO">>),
      [filename |-> "list", data |-> ListV(<<>>), order |-> <<>>],
      CDoc("nomap", CSummary(StrV("Citi"), IntV(0), IntV(0), IntV(0), IntV(0)), Missing, <<>>),
      [filename |-> "broken", data |-> Unreadable, order |-> <<>>] }

FileLists == UNION {Lists(CombineDocs, n) : n \in 0..MaxFiles}

\* quality_gate is not being evaluated
GateIdle ==
    /\ raw_text = ""
    /\ parsed = Null
    /\ candidate = Null
    /\ retry_level = 0
    /\ pc = "idle"
    /\ level = 0
    /\ min_date_hits = 0
    /\ min_money_hits = 0
    /\ require_both_dates = FALSE
    /\ require_known_holder = FALSE
    /\ allowed_names = {}
    /\ cleaned_map = EmptyDict
    /\ total_tx = 0
    /\ pending = {}
    /\ uncorroborated = {}
    /\ signal_score = 0
    /\ result = NoResult
    /\ NoCallYet

CombineInit ==
    /\ GateIdle /\ AgentIdle /\ SideIdle
    /\ individual_files \in FileLists
    /\ files_done = 0
    /\ combined = NewCombined
    /\ combine_pc = "loop"

\* lines 25-145: the loop body on the next file
CombineNextFile ==
    /\ combine_pc = "loop"
    /\ files_done < Len(individual_files)
    /\ combined' = CombineFile(combined, individual_files[files_done + 1])
    /\ files_done' = files_done + 1
    /\ UNCHANGED <<gate_vars, calls, first, agent_vars, side_vars, individual_files, combine_pc>>

\* line 147: return combined
CombineReturn ==
    /\ combine_pc = "loop"
    /\ files_done = Len(individual_files)
    /\ combine_pc' = "returned"
    /\ UNCHANGED <<gate_vars, calls, first, agent_vars, side_vars, individual_files, files_done,
                   combined>>

CombineNext == CombineNextFile \/ CombineReturn

CombineSpec == CombineInit /\ [][CombineNext]_vars

(***************************************************************************)
(* statement_parser_agent.run_parsing_agent and                            *)
(* statement_processor.process_single_statement                            *)
(***************************************************************************)
MaxBatch == 2

OUTPUT_DIR == "temp/parsed_statements"

\* Path(OUTPUT_DIR) / f"{stem}_parsed.json"
ParsedPath(stem) == OUTPUT_DIR \o "/" \o stem \o "_parsed.json"

MsgStage1 == "Failed to parse statement in Stage 1"

MsgLowQuality(msg) == "Low-quality parse: " \o msg

MsgUnknown == "Unknown error"

\* Exception.__str__ of the UnicodeEncodeError of json.dump, without the
\* position
MsgCannotEncode == "'utf-8' codec can't encode character: surrogates not allowed"

\* what the extraction of one call comes to: an exception in the body, raised
\* by load_statement (line 32) or by the run of the parsing team (line 114),
\* no JSON from stage 1, or the parse the two stages end with
Raised(msg, at) == [kind |-> "exception", msg |-> msg, at |-> at]

NoJson == [kind |-> "nojson"]

Extracted(cand) == [kind |-> "parse", cand |-> cand]

SingleHolder(h, tx) ==
    DictV([transactions_by_cardholder |-> DictV(h :> ListV(<<tx>>)), summary |-> GoodSummary])

OneDateParse == SingleHolder("AL BO", Tx(StrV("01/02"), Missing, StrV("COFFEE"), IntV(12)))

\* a lone surrogate (U+D800), which json.loads reads from its escape and the
\* utf-8 encoder of the parsed file refuses, stands as this character
LoneSurrogate == "^"

\* a parse of the categorizer with a lone surrogate in a description
SurrogateParse ==
    SingleHolder("AL BO", Tx(StrV("01/02"), StrV("01/02"), StrV("TEA " \o LoneSurrogate),
                             IntV(12)))

Extractions ==
    {Raised("", "run"), Raised("boom", "load"), NoJson}
        \cup {Extracted(c) : c \in {GoodParse, OneDateParse, DictV(EmptyDict), SurrogateParse}}

RECURSIVE Encodable(_)
\* json.dump(v, f, ensure_ascii=False) into a file opened with encoding
\* utf-8 writes all of v
Encodable(v) ==
    CASE v.ty = "str" -> ~Contains(v.s, LoneSurrogate)
      [] v.ty = "list" -> \A i \in 1..Len(v.items) : Encodable(v.items[i])
      [] v.ty = "dict" -> \A k \in DOMAIN v.d :
                              ~Contains(k, LoneSurrogate) /\ Encodable(v.d[k])
      [] OTHER -> TRUE

OnException_Propagating(msg, at) ==
    [raised |-> TRUE, success |-> FALSE, error_msg |-> msg, written |-> Missing,
     executor |-> IF at = "load" THEN "none" ELSE "running"]

\* statement_processor.py lines 282-283: an Exception of the body is caught
\* and returned as a failure with its text; raised at line 114 it leaves the
\* executor of line 57 as it is
OnException(msg, at) ==
    [raised |-> FALSE, success |-> FALSE, error_msg |-> msg, written |-> Missing,
     executor |-> IF at = "load" THEN "none" ELSE "running"]

\* lines 205-207: stage 1 gave no JSON
OnNoJson ==
    [raised |-> FALSE, success |-> FALSE, error_msg |-> MsgStage1, written |-> Missing,
     executor |-> "stopped"]

\* lines 268-283: the gate's tuple decides; an accepted parse is written to
\* the parsed file of the stem and returned.  json.dump (line 278) writes
\* into the file that open (line 277) has created or emptied: when it raises
\* on a string it cannot encode, the file is left with the part written and
\* the call returns the failure of line 283
OnGateResult(gate) ==
    IF ~gate.ok
    THEN [raised |-> FALSE, success |-> FALSE, error_msg |-> MsgLowQuality(gate.msg),
          written |-> Missing, executor |-> "stopped"]
    ELSE IF ~Encodable(gate.cleaned)
    THEN [raised |-> FALSE, success |-> FALSE, error_msg |-> MsgCannotEncode,
          written |-> Unreadable, executor |-> "stopped"]
    ELSE [raised |-> FALSE, success |-> TRUE, error_msg |-> "", written |-> gate.cleaned,
          executor |-> "stopped"]

\* the statement files of a batch
StatementFiles ==
    {[name |-> "jan.pdf", stem |-> "jan", text |-> StrictText],
     [name |-> "feb.pdf", stem |-> "feb", text |-> ""],
     [name |-> "jan.txt", stem |-> "jan", text |-> ""]}

\* the batches: lists of different statement files
Batches ==
    {q \in UNION {Lists(StatementFiles, n) : n \in 0..MaxBatch} :
        \A i, j \in 1..Len(q) : q[i] = q[j] => i = j}

AgentInit ==
    /\ GateIdle /\ CombineIdle /\ SideIdle
    /\ statement_files \in Batches
    /\ file_i = 0
    /\ attempt = 0
    /\ success = FALSE
    /\ error_msg = ""
    /\ last_error = Null
    /\ successful_files = <<>>
    /\ failed_files = <<>>
    /\ output_dir = EmptyDict
    /\ attempts = <<>>
    /\ batch_result = Null
    /\ agent_pc = "enter"
    /\ executor = "none"

\* lines 16-26: no file, return {}; else the two empty lists
AgentEnter ==
    /\ agent_pc = "enter"
    /\ IF statement_files = <<>>
       THEN /\ batch_result' = DictV(EmptyDict)
            /\ agent_pc' = "done"
            /\ UNCHANGED file_i
       ELSE /\ file_i' = 1
            /\ agent_pc' = "file"
            /\ UNCHANGED batch_result
    /\ UNCHANGED <<gate_vars, calls, first, combine_vars, side_vars, statement_files, attempt,
                   success, error_msg, last_error, successful_files, failed_files, output_dir,
                   attempts, executor>>

\* lines 33-38: the next file of the loop
AgentNextFile ==
    /\ agent_pc = "file"
    /\ file_i <= Len(statement_files)
    /\ last_error' = Null
    /\ success' = FALSE
    /\ attempt' = 0
    /\ attempts' = <<>>
    /\ agent_pc' = "attempt"
    /\ UNCHANGED <<gate_vars, calls, first, combine_vars, side_vars, statement_files, file_i,
                   error_msg, successful_files, failed_files, output_dir, batch_result,
                   executor>>

\* a string, or the other string if it is empty (line 56)
OrElse(s, other) == IF s = "" THEN other ELSE s

RetryOrLeave_Once(a) == [attempt |-> a, agent_pc |-> "after"]

RetryOrLeave_SameLevel(a) == [attempt |-> a, agent_pc |-> "attempt"]

\* line 40: the next value of the loop variable, or the end of the loop
RetryOrLeave(a) ==
    IF a < MAX_RETRIES THEN [attempt |-> a + 1, agent_pc |-> "attempt"]
    ELSE [attempt |-> a, agent_pc |-> "after"]

\* statement_processor.py line 268: quality_gate is called
GateCalled(text, cand, lv) ==
    /\ raw_text' = text
    /\ parsed' = cand
    /\ candidate' = cand
    /\ retry_level' = lv
    /\ pc' = "entry"
    /\ level' = 0
    /\ min_date_hits' = 0
    /\ min_money_hits' = 0
    /\ require_both_dates' = FALSE
    /\ require_known_holder' = FALSE
    /\ allowed_names' = {}
    /\ cleaned_map' = EmptyDict
    /\ total_tx' = 0
    /\ pending' = {}
    /\ uncorroborated' = {}
    /\ signal_score' = 0
    /\ result' = NoResult

\* statement_processor.py lines 274-283 and statement_parser_agent.py lines
\* 46-59: the call of process_single_statement ends as call, and the loop of
\* line 40 goes on from it
Returned(call) ==
    LET file == statement_files[file_i]
        path == ParsedPath(file.stem)
    IN  /\ attempts' = Append(attempts, [level |-> attempt, success |-> call.success,
                                         error_msg |-> call.error_msg])
        /\ executor' = call.executor
        /\ IF call.raised
           THEN /\ agent_pc' = "raised"
                /\ UNCHANGED <<attempt, success, error_msg, last_error, successful_files,
                               output_dir>>
           ELSE /\ success' = call.success
                /\ error_msg' = call.error_msg
                /\ output_dir' = IF call.written = Missing THEN output_dir
                                 ELSE Put(output_dir, path, call.written)
                /\ IF call.success
                   THEN /\ successful_files' = Append(successful_files, path)
                        /\ agent_pc' = "after"
                        /\ UNCHANGED <<attempt, last_error>>
                   ELSE /\ last_error' = StrV(OrElse(call.error_msg, MsgUnknown))
                        /\ attempt' = RetryOrLeave(attempt).attempt
                        /\ agent_pc' = RetryOrLeave(attempt).agent_pc
                        /\ UNCHANGED successful_files
        /\ UNCHANGED <<calls, first, combine_vars, procs, statement_files, file_i,
                       failed_files, batch_result>>

\* lines 40-48 and statement_processor.py lines 26-268: one attempt on the
\* file in hand, up to its return or to its call of the gate.  The text is
\* written to temp/statement.txt (lines 33-37) once load_statement has given
\* it, and the executor is stopped (line 226) before the gate is called
AgentAttempt ==
    /\ agent_pc = "attempt"
    /\ \E extraction \in Extractions :
          /\ work_file' = IF extraction.kind = "exception" /\ extraction.at = "load"
                          THEN work_file
                          ELSE StrV(statement_files[file_i].text)
          /\ IF extraction.kind = "parse"
             THEN /\ GateCalled(statement_files[file_i].text, extraction.cand, attempt)
                  /\ agent_pc' = "gate"
                  /\ executor' = "stopped"
                  /\ UNCHANGED <<calls, first, combine_vars, procs, statement_files, file_i,
                                 attempt, success, error_msg, last_error, successful_files,
                                 failed_files, output_dir, attempts, batch_result>>
             ELSE /\ Returned(IF extraction.kind = "exception"
                              THEN OnException(extraction.msg, extraction.at)
                              ELSE OnNoJson)
                  /\ UNCHANGED gate_vars

\* the evaluation of the gate is over and its variables are gone
GateLeft ==
    /\ raw_text' = ""
    /\ parsed' = Null
    /\ candidate' = Null
    /\ retry_level' = 0
    /\ pc' = "idle"
    /\ level' = 0
    /\ min_date_hits' = 0
    /\ min_money_hits' = 0
    /\ require_both_dates' = FALSE
    /\ require_known_holder' = FALSE
    /\ allowed_names' = {}
    /\ cleaned_map' = EmptyDict
    /\ total_tx' = 0
    /\ pending' = {}
    /\ uncorroborated' = {}
    /\ signal_score' = 0
    /\ result' = NoResult

\* statement_processor.py lines 268-280: the gate has returned
AgentGateReturned ==
    /\ agent_pc = "gate"
    /\ pc = "returned"
    /\ Returned(OnGateResult(result))
    /\ GateLeft
    /\ UNCHANGED work_file

\* lines 61-64: the file is recorded as failed if its loop ended without a
\* success
AgentAfter ==
    /\ agent_pc = "after"
    /\ failed_files' = IF success THEN failed_files
                       ELSE Append(failed_files, <<statement_files[file_i].name, last_error>>)
    /\ file_i' = file_i + 1
    /\ agent_pc' = "file"
    /\ UNCHANGED <<gate_vars, calls, first, combine_vars, side_vars, statement_files, attempt,
                   success, error_msg, last_error, successful_files, output_dir, attempts,
                   batch_result, executor>>

\* the stem of a parsed file's path
PathStem(path) == SubSeq(path, Len(OUTPUT_DIR) + 2, Len(path) - Len(".json"))

\* the keys of a holder map in the order the file has them
KeysInOrder(f) ==
    CHOOSE q \in [1..Cardinality(DOMAIN f) -> DOMAIN f] : \A k \in DOMAIN f : \E i \in DOMAIN q : q[i] = k

\* json.load of a parsed file of output_dir, as combine_parsed_data reads it
ParsedFile(dir, path) ==
    [filename |-> PathStem(path),
     data |-> dir[path],
     order |-> IF dir[path] = Unreadable THEN <<>> ELSE KeysInOrder(dir[path].d[TxKey].d)]

\* the parsed files of the paths as combine_parsed_data reads them
ParsedFiles(paths, dir) == [i \in 1..Len(paths) |-> ParsedFile(dir, paths[i])]

BatchResult_AlwaysCombined(paths, dir) ==
    DictV(combine_parsed_data([i \in 1..Len(paths) |-> ParsedFile(dir, paths[i])]))

\* lines 92-98: the aggregate of the parsed files, or {} if there is none
BatchResult(paths, dir) ==
    IF paths # <<>>
    THEN DictV(combine_parsed_data([i \in 1..Len(paths) |-> ParsedFile(dir, paths[i])]))
    ELSE DictV(EmptyDict)

\* lines 81-98: after the last file; combine_parsed_data, if it is called,
\* runs to its end on the parsed files as they are then
AgentReturn ==
    /\ agent_pc = "file"
    /\ file_i > Len(statement_files)
    /\ batch_result' = BatchResult(successful_files, output_dir)
    /\ IF batch_result' = DictV(EmptyDict)
       THEN UNCHANGED combine_vars
       ELSE /\ individual_files' = ParsedFiles(successful_files, output_dir)
            /\ files_done' = Len(successful_files)
            /\ combined' = batch_result'.d
            /\ combine_pc' = "returned"
    /\ agent_pc' = "done"
    /\ UNCHANGED <<gate_vars, calls, first, side_vars, statement_files, file_i, attempt,
                   success, error_msg, last_error, successful_files, failed_files, output_dir,
                   attempts, executor>>

AgentNext ==
    \/ AgentEnter \/ AgentNextFile \/ AgentAttempt
    \/ GateEntry \/ GateHolder \/ GateFinish
    \/ AgentGateReturned \/ AgentAfter \/ AgentReturn

AgentSpec == AgentInit /\ [][AgentNext]_vars

\* run_parsing_agent is at a statement it can execute, and goes on to another
\* position of its loops: the code between two positions neither waits nor
\* loops
AgentRuns ==
    /\ \/ agent_pc \in {"enter", "file", "attempt", "after"}
       \/ agent_pc = "gate" /\ pc = "returned"
    /\ agent_pc' \in {"file", "attempt", "gate", "after", "done"}
    /\ attempt' \in 0..MAX_RETRIES

\* the gate is being evaluated and goes one step on: it leaves the entry,
\* goes through one holder of the loop or returns
GateRuns ==
    /\ pc \in {"entry", "loop"}
    /\ pc' \in {"loop", "returned"}
    /\ pending' \in SUBSET {"AL BO", "CY DE"}

\* the agent and the gate are sequential code: a position that can be left
\* is left
AgentFairSpec ==
    AgentSpec /\ WF_<<agent_pc, attempt>>(AgentRuns) /\ WF_<<pc, pending>>(GateRuns)

(***************************************************************************)
(* Two calls of process_single_statement side by side                      *)
(*                                                                         *)
(* process_single_statement is a coroutine: two calls started together     *)
(* (asyncio.gather) take turns at their awaits, lines 57, 114, 223 and     *)
(* 226.  The parser's code runs in the executor, whose working directory   *)
(* is temp: it has the text in the task message (lines 82-88) and in       *)
(* statement.txt, the file its system message tells it to read.            *)
(***************************************************************************)
\* the parse the two stages give of a statement text
ParseOfText(text) == IF text = StrictText THEN GoodParse ELSE Parse(EmptyDict)

\* the pairs of different statement files
FilePairs == {q \in Lists(StatementFiles, 2) : q[1] # q[2]}

\* a call that has not begun
NewProc(file, lv) ==
    [file |-> file, retry_level |-> lv, pc |-> "start", seen |-> Missing, ret |-> Missing]

SideInit ==
    /\ GateIdle /\ CombineIdle /\ AgentIdle
    /\ work_file = Missing
    /\ \E q \in FilePairs : \E l1, l2 \in RetryLevels :
          procs = <<NewProc(q[1], l1), NewProc(q[2], l2)>>

\* what a call that is not in the gate leaves alone
side_frame ==
    <<calls, first, combine_vars, statement_files, file_i, attempt, success, error_msg,
      last_error, successful_files, failed_files, attempts, batch_result, agent_pc, executor>>

\* no call is between its call of the gate and its return: that stretch has
\* no await, and the other call waits
NoneInGate == \A d \in DOMAIN procs : procs[d].pc # "gate"

\* lines 32-57: the text is loaded and written to temp/statement.txt, up to
\* the await of the executor's start
SideLoad(d) ==
    /\ NoneInGate
    /\ procs[d].pc = "start"
    /\ work_file' = StrV(procs[d].file.text)
    /\ procs' = [procs EXCEPT ![d].pc = "stage1"]
    /\ UNCHANGED <<gate_vars, side_frame, output_dir>>

\* lines 60-207: the parsing team runs; its code takes the text from the
\* message or from statement.txt as the file is then
SideStage1(d) ==
    /\ NoneInGate
    /\ procs[d].pc = "stage1"
    /\ \E text \in {StrV(procs[d].file.text), work_file} :
          procs' = [procs EXCEPT ![d].pc = "stage2", ![d].seen = text]
    /\ UNCHANGED <<gate_vars, side_frame, output_dir, work_file>>

\* lines 209-268: the categorizer has run and the executor is stopped; the
\* gate is called on the call's own text
SideCallGate(d) ==
    /\ NoneInGate
    /\ procs[d].pc = "stage2"
    /\ GateCalled(procs[d].file.text, ParseOfText(procs[d].seen.s), procs[d].retry_level)
    /\ procs' = [procs EXCEPT ![d].pc = "gate"]
    /\ UNCHANGED <<side_frame, output_dir, work_file>>

\* the tuple a call returns
Tuple(call) ==
    [success |-> call.success, error_msg |-> call.error_msg,
     data |-> IF call.success THEN call.written ELSE DictV(EmptyDict)]

\* lines 268-283: the gate has returned; the parsed file is written and the
\* call returns
SideGateReturned(d) ==
    /\ procs[d].pc = "gate"
    /\ pc = "returned"
    /\ LET call == OnGateResult(result)
       IN  /\ output_dir' = IF call.written = Missing THEN output_dir
                            ELSE Put(output_dir, ParsedPath(procs[d].file.stem), call.written)
           /\ procs' = [procs EXCEPT ![d].pc = "returned", ![d].ret = Tuple(call)]
    /\ GateLeft
    /\ UNCHANGED <<side_frame, work_file>>

SideNext ==
    \/ \E d \in 1..2 : SideLoad(d) \/ SideStage1(d) \/ SideCallGate(d) \/ SideGateReturned(d)
    \/ GateEntry \/ GateHolder \/ GateFinish

SideSpec == SideInit /\ [][SideNext]_vars

(***************************************************************************)
(* What the properties below read off a state                              *)
(***************************************************************************)
\* the evaluation got past the shape checks of lines 48-52
Entered == pc = "loop" \/ (pc = "returned" /\ result.msg \notin {MsgNotDict, MsgMissingMap})

Accepted == pc = "returned" /\ result.ok

\* the candidate is a dict with a dict under transactions_by_cardholder
WellFormed(c) == IsDict(c) /\ TxKey \in DOMAIN c.d /\ IsDict(c.d[TxKey])

\* the holder map the evaluation was given
CandMap == Get(candidate.d, TxKey, DictV(EmptyDict)).d

\* the holders the loop has been through
Done == (DOMAIN CandMap) \ pending

\* the holders whose lists the loop has sanitized
Sanitized ==
    {h \in Done \ uncorroborated : IsList(CandMap[h]) /\ CandMap[h].items # <<>>}

CandTxs(h) == CandMap[h].items

\* the transactions retained for holder h
OutTxs(h) == IF h \in DOMAIN cleaned_map THEN cleaned_map[h].items ELSE <<>>

\* the holder map of an accepted result
OutMap == result.cleaned.d[TxKey].d

RECURSIVE Retained(_)
\* the number of transactions in the holder map m
Retained(m) ==
    IF DOMAIN m = {} THEN 0
    ELSE LET h == CHOOSE x \in DOMAIN m : TRUE
         IN  Len(m[h].items) + Retained([k \in (DOMAIN m) \ {h} |-> m[k]])

SaleOf(t) == PyStr(Get(t.d, "sale_date", StrV("")))
PostOf(t) == PyStr(Get(t.d, "post_date", StrV("")))
DescOf(t) == PyStr(Get(t.d, "description", StrV("")))
AmountOf(t) == Get(t.d, "amount", Null)

\* the number of elements of q that satisfy Test
Count(q, Test(_)) == Cardinality({k \in 1..Len(q) : Test(q[k])})

\* a date field of a retained transaction is a string in an accepted form
DateField(t, key) == key \in DOMAIN t.d /\ t.d[key].ty = "str" /\ _valid_date(t.d[key].s)

\* the amount coerces to a finite number that is not zero and is below the ceiling
AmountUsable(v) ==
    LET r == PyFloat(v)
    IN  /\ r.ok
        /\ r.v.ty = "float"
        /\ r.v.whole # 0 \/ r.v.frac # 0
        /\ r.v.whole < AmountCeiling

\* the signals of the raw text met under the level-0 thresholds
StrictScore ==
    LET sig == _source_signals(raw_text)
    IN  (IF sig.has_brand THEN 1 ELSE 0)
        + (IF sig.has_structure THEN 1 ELSE 0)
        + (IF sig.has_last4 THEN 1 ELSE 0)
        + (IF sig.date_hits >= 5 THEN 1 ELSE 0)
        + (IF sig.money_hits >= 3 THEN 1 ELSE 0)

(***************************************************************************)
(* The strictness schedule                                                 *)
(***************************************************************************)
\* C1: for retry levels 0, 1 and 2 the date threshold is 5, 3, 2 and the
\* money threshold 3, 2, 1; both dates are required at levels 0 and 1 and not
\* at level 2; holders are corroborated at level 0 only.
C1_StrictnessSchedule ==
    Entered =>
        /\ level = retry_level
        /\ retry_level = 0 =>
              /\ min_date_hits = 5 /\ min_money_hits = 3
              /\ require_both_dates /\ require_known_holder
        /\ retry_level = 1 =>
              /\ min_date_hits = 3 /\ min_money_hits = 2
              /\ require_both_dates /\ ~require_known_holder
        /\ retry_level = 2 =>
              /\ min_date_hits = 2 /\ min_money_hits = 1
              /\ ~require_both_dates /\ ~require_known_holder
        /\ uncorroborated # {} => retry_level = 0

\* an evaluation at level 1 accepts a holder the text's allow-list does not name
C1_Witness ==
    /\ Accepted
    /\ retry_level = 1
    /\ min_date_hits = 3 /\ min_money_hits = 2
    /\ allowed_names # {}
    /\ \E h \in DOMAIN OutMap : h \notin allowed_names

(***************************************************************************)
(* The shape checks                                                        *)
(***************************************************************************)
\* C2: a candidate that is not a mapping, or whose transactions_by_cardholder
\* is missing or not a mapping, is rejected with a malformed-input reason
\* before any holder or transaction is examined.
C2_MalformedRejected ==
    pc = "returned" /\ ~WellFormed(candidate) =>
        /\ ~result.ok
        /\ result.msg \in {MsgNotDict, MsgMissingMap}
        /\ parsed = candidate

(***************************************************************************)
(* Holder corroboration                                                    *)
(***************************************************************************)
\* the holder name is an allow-listed name but for case and spacing, or is
\* contained in one
FuzzyMatch(holder, allowed) ==
    \E a \in allowed : Contains(Squash(a), Squash(holder))

\* C3 as stated: at level 0 with a non-empty allow-list a holder is kept
\* exactly when its name equals an allow-listed name or matches one by a
\* case-insensitive, whitespace-insensitive containment comparison.
C3_KeptIffExactOrFuzzy ==
    Entered /\ level = 0 /\ allowed_names # {} =>
        \A h \in Done :
            h \notin uncorroborated <=> (h \in allowed_names \/ FuzzyMatch(h, allowed_names))

\* C3 amended: at level 0 with a non-empty allow-list a holder is kept
\* exactly when its name is equal, character for character, to an
\* allow-listed name; every other holder contributes no transactions.
C3_KeptIffExact ==
    Entered /\ level = 0 /\ allowed_names # {} =>
        /\ \A h \in Done : h \notin uncorroborated <=> h \in allowed_names
        /\ DOMAIN cleaned_map \subseteq allowed_names

\* the allow-listed name is kept and its variant in case is dropped
C3_Witness ==
    /\ pc = "returned"
    /\ level = 0
    /\ "AL BO" \in allowed_names
    /\ "AL BO" \in DOMAIN cleaned_map
    /\ "Al Bo" \in uncorroborated
    /\ CandMap["Al Bo"] = ListV(<<GoodTx>>)

\* C4: when the allow-list computed from the raw text is empty no holder is
\* dropped for being uncorroborated, at any level; every holder goes on to
\* have its transactions sanitized.
C4_EmptyAllowListBlocksNobody ==
    Entered /\ _extract_possible_cardholders(raw_text) = {} =>
        /\ uncorroborated = {}
        /\ \A h \in Done :
              IsList(CandMap[h]) =>
                  OutTxs(h) = CleanedTxs(CandTxs(h), require_both_dates)

\* a holder is accepted at level 0 although the text names nobody
C4_Witness ==
    /\ Accepted
    /\ level = 0
    /\ require_known_holder
    /\ allowed_names = {}
    /\ DOMAIN OutMap # {}

(***************************************************************************)
(* Transaction sanitization                                                *)
(***************************************************************************)
\* the transaction passes the level-2 tests: a dict, a valid date, a
\* description and an amount that line 78 lets through
PassesRelaxed(t) ==
    /\ IsDict(t)
    /\ _valid_date(SaleOf(t)) \/ _valid_date(PostOf(t))
    /\ ~DescriptionRejected(DescOf(t))
    /\ AmountUsable(AmountOf(t))

\* C5: every transaction of an accepted result has a sale date and a post
\* date of the form M/D, M/D/YY or M/D/YYYY; at level 2 a transaction with
\* one valid date is retained with that date in both fields, and one with no
\* valid date is dropped.
C5_RetainedDatesValid ==
    /\ Accepted =>
          \A h \in DOMAIN OutMap : \A k \in 1..Len(OutMap[h].items) :
              /\ DateField(OutMap[h].items[k], "sale_date")
              /\ DateField(OutMap[h].items[k], "post_date")
    /\ Entered /\ level = 2 =>
          \A h \in Sanitized :
              LET orig == SelectSeq(CandTxs(h), PassesRelaxed)
                  out == OutTxs(h)
              IN  /\ Len(out) = Len(orig)
                  /\ \A k \in 1..Len(orig) :
                        LET sale_ok == _valid_date(SaleOf(orig[k]))
                            post_ok == _valid_date(PostOf(orig[k]))
                        IN  /\ Get(out[k].d, "sale_date", Null) =
                                 StrV(IF sale_ok THEN SaleOf(orig[k]) ELSE PostOf(orig[k]))
                            /\ Get(out[k].d, "post_date", Null) =
                                 StrV(IF post_ok THEN PostOf(orig[k]) ELSE SaleOf(orig[k]))

\* a level-2 result holds a transaction that came with a sale date only
C5_Witness ==
    /\ Accepted
    /\ level = 2
    /\ \E h \in DOMAIN OutMap : \E k \in 1..Len(CandTxs(h)) :
          /\ IsDict(CandTxs(h)[k])
          /\ "post_date" \notin DOMAIN CandTxs(h)[k].d
          /\ \E j \in 1..Len(OutMap[h].items) :
                /\ _valid_date(SaleOf(CandTxs(h)[k]))
                /\ OutMap[h].items[j].d["post_date"] = StrV(SaleOf(CandTxs(h)[k]))
                /\ DescOf(OutMap[h].items[j]) = DescOf(CandTxs(h)[k])

\* the description is at least two characters long after trimming and holds
\* none of the heading snippets
DescriptionAcceptable(desc) ==
    /\ Len(Strip(desc)) >= 2
    /\ \A sn \in heading_snippets : ~Contains(Lower(Strip(desc)), sn)

\* C6: a transaction is retained only if its description, trimmed, is at
\* least 2 characters long and contains none of the heading snippets; with
\* the dates and the amount in order nothing else about the description
\* decides.
C6_DescriptionRule ==
    Entered =>
        \A h \in Sanitized :
            Len(OutTxs(h)) =
                Count(CandTxs(h),
                      LAMBDA t : /\ IsDict(t)
                                 /\ DatesPass(require_both_dates, _valid_date(SaleOf(t)),
                                              _valid_date(PostOf(t)))
                                 /\ AmountUsable(AmountOf(t))
                                 /\ DescriptionAcceptable(DescOf(t)))

C8_NoEmptyHolder ==
    Accepted =>
        /\ \A h \in DOMAIN OutMap : IsList(OutMap[h]) /\ OutMap[h].items # <<>>
        /\ \A h \in DOMAIN CandMap :
              (~IsList(CandMap[h]) \/ CleanedTxs(CandTxs(h), require_both_dates) = <<>>)
                  => h \notin DOMAIN OutMap

\* an accepted result lacks a holder whose only transaction was dropped
C8_Witness ==
    /\ Accepted
    /\ \E h \in (DOMAIN CandMap) \ uncorroborated :
          /\ CandMap[h] = ListV(<<ZeroTx>>)
          /\ h \notin DOMAIN OutMap

(***************************************************************************)
(* The verdict                                                             *)
(***************************************************************************)
\* C9: a well-formed candidate is rejected with "No valid transactions after
\* cleanup." exactly when no transaction is retained over all holders, and
\* this is decided before the source signals are looked at.
C9_NoValidIffNothingRetained ==
    pc = "returned" /\ WellFormed(candidate) =>
        /\ result.msg = MsgNoValid <=> Retained(parsed.d[TxKey].d) = 0
        /\ Retained(parsed.d[TxKey].d) = 0 => ~result.ok
        /\ total_tx = Retained(cleaned_map)

\* nothing is retained and the text has fewer than two signals at level 0
C9_Witness ==
    /\ pc = "returned"
    /\ WellFormed(candidate)
    /\ level = 0
    /\ DOMAIN CandMap # {}
    /\ StrictScore < 2
    /\ result.msg = MsgNoValid

\* C10: the source-signal rejection is issued only at level 0 and only when
\* fewer than 2 of the 5 signals are met; at levels 1 and 2 a well-formed
\* candidate with a retained transaction is accepted whatever the text.
C10_SignalsDecideAtLevelZeroOnly ==
    pc = "returned" =>
        /\ result.msg = MsgNoSignals => ~result.ok /\ retry_level = 0 /\ StrictScore < 2
        /\ Entered /\ retry_level \in {1, 2} /\ Retained(cleaned_map) >= 1 => result.ok

\* a candidate is accepted at level 1 or 2 under a text with no signal at all
C10_Witness ==
    /\ Accepted
    /\ raw_text = ""
    /\ retry_level \in {1, 2}
    /\ SignalScore(_source_signals(raw_text), min_date_hits, min_money_hits) = 0

(***************************************************************************)
(* The summary                                                             *)
(***************************************************************************)
\* the summary the evaluation was given, and the one it returned
CandSummary == Get(candidate.d, "summary", DictV(EmptyDict))
OutSummary == Get(result.cleaned.d, "summary", Null)

\* a Python float
IsFloat(v) == v.ty \in {"float", "nonfinite"}

\* the float the value coerces to, 0.0 if it does not coerce
FloatOrZero(v) == IF PyFloat(v).ok THEN PyFloat(v).v ELSE FloatV(FALSE, 0, 0)

\* C11 as stated: in an accepted result each of previous_balance,
\* new_balance, payments, credits and purchases is a float, the float of the
\* candidate's value if it coerces and 0.0 if it is absent, null, empty or does
\* not coerce.
C11_SummaryFieldsAllFloat ==
    Accepted /\ IsDict(CandSummary) =>
        /\ IsDict(OutSummary)
        /\ \A k \in summary_fields :
              /\ k \in DOMAIN OutSummary.d
              /\ IsFloat(OutSummary.d[k])
              /\ OutSummary.d[k] =
                    IF k \in DOMAIN CandSummary.d /\ CandSummary.d[k] \notin {Null, StrV("")}
                    THEN FloatOrZero(CandSummary.d[k])
                    ELSE FloatV(FALSE, 0, 0)

\* C11 amended: in an accepted result whose summary is a mapping, each of the
\* five fields that the candidate holds with a value other than null and the
\* empty string is a float, the float of that value if it coerces and 0.0 if
\* not; a field that is absent stays absent, one that is null or the empty
\* string stays as it is, and every other summary field is untouched.
C11_PresentSummaryFieldsFloat ==
    Accepted /\ IsDict(CandSummary) =>
        /\ IsDict(OutSummary)
        /\ DOMAIN OutSummary.d = DOMAIN CandSummary.d
        /\ \A k \in DOMAIN CandSummary.d :
              IF k \in summary_fields /\ CandSummary.d[k] \notin {Null, StrV("")}
              THEN /\ IsFloat(OutSummary.d[k])
                   /\ OutSummary.d[k] = FloatOrZero(CandSummary.d[k])
              ELSE OutSummary.d[k] = CandSummary.d[k]

\* an accepted result with a field defaulted to 0.0, a field coerced, and
\* no new_balance at all
C11_Witness ==
    /\ Accepted
    /\ IsDict(CandSummary)
    /\ Get(CandSummary.d, "payments", Null) = StrV("abc")
    /\ Get(CandSummary.d, "previous_balance", Null) = StrV("100.50")
    /\ IsDict(OutSummary)
    /\ OutSummary.d["payments"] = FloatV(FALSE, 0, 0)
    /\ OutSummary.d["previous_balance"] = FloatV(FALSE, 100, 50)
    /\ "new_balance" \notin DOMAIN OutSummary.d

(***************************************************************************)
(* Repeated evaluation                                                     *)
(***************************************************************************)
\* C12: evaluating the gate twice in succession on the same raw text,
\* candidate and level returns the same accepted flag, reason and cleaned
\* parse both times, also when the second evaluation is given the candidate
\* object as the first one left it.
C12_SecondEvaluationSame ==
    pc = "returned" /\ calls = 1 => result = first

\* the second evaluation was given the parse the first one returned, in
\* which the first had coerced an amount and mirrored a date, and it has
\* accepted too
C12_Witness ==
    /\ pc = "returned"
    /\ calls = 1
    /\ level = 2
    /\ result.ok /\ first.ok
    /\ candidate = first.cleaned
    /\ \E h \in DOMAIN OutMap : \E k \in 1..Len(OutMap[h].items) :
          /\ DescOf(OutMap[h].items[k]) = "TEA"
          /\ AmountOf(OutMap[h].items[k]) = FloatV(TRUE, 3, 50)
          /\ PostOf(OutMap[h].items[k]) = "01/02"

(***************************************************************************)
(* Claims on combine_parsed_data                                           *)
(***************************************************************************)
Combined == combine_pc = "returned"

\* the files in the order p, a permutation of their positions
Reordered(files, p) == [i \in 1..Len(files) |-> files[p[i]]]

Orderings(files) == {Reordered(files, p) : p \in Permutations(1..Len(files))}

\* how many times each element is in a list
BagOf(q) == [x \in {q[i] : i \in 1..Len(q)} |-> Cardinality({i \in 1..Len(q) : q[i] = x})]

\* an aggregate without the order of its lists
Unordered(c) ==
    [c EXCEPT !.individual_statements = BagOf(@),
              !.combined_transactions_by_cardholder = [h \in DOMAIN @ |-> BagOf(@[h])],
              !.summary_by_bank = [b \in DOMAIN @ |-> [@[b] EXCEPT !.cardholders = BagOf(@)]]]

\* C17 as stated: every ordering of the files gives the same aggregate
C17_SameForEveryOrder ==
    Combined => \A q \in Orderings(individual_files) : combine_parsed_data(q) = combined

\* C17 amended: every ordering of the files gives the same aggregate up to the
\* order of the elements of its lists (the statements, each holder's
\* transactions, each bank's cardholders); the maps and every total are the
\* same
C17_SameUpToListOrder ==
    Combined => \A q \in Orderings(individual_files) :
                    Unordered(combine_parsed_data(q)) = Unordered(combined)

\* two files of one bank and one holder, combined, whose other order gives
\* another aggregate
C17_Witness ==
    /\ Combined
    /\ Len(individual_files) = 2
    /\ individual_files[1].filename = "citi_jan"
    /\ individual_files[2].filename = "citi_feb"
    /\ combine_parsed_data(<<individual_files[2], individual_files[1]>>) # combined
    /\ combined.summary_by_bank["Citi"].total_statements = 2

\* the sum of F over the elements of a list
SumOf(q, F(_)) ==
    LET upto[i \in 0..Len(q)] == IF i = 0 THEN 0 ELSE upto[i - 1] + F(q[i])
    IN  upto[Len(q)]

\* the amount of an aggregated transaction, in hundredths
SignedAmount(t) == IF IsDict(t) THEN Hundredths(Get(t.d, "amount", IntV(0))) ELSE 0

PaymentPart(t) == IF SignedAmount(t) < 0 THEN -SignedAmount(t) ELSE 0

PurchasePart(t) == IF SignedAmount(t) < 0 THEN 0 ELSE SignedAmount(t)

\* a transaction the loop of lines 92-114 can add: its amount is a number and
\* its category can be a key
Addable(t) ==
    IsDict(t) => /\ Numeric(Get(t.d, "amount", IntV(0)))
                 /\ Hashable(Get(t.d, "category", StrV(Uncategorized)))

AllAddable(q) == \A i \in 1..Len(q) : Addable(q[i])

HasTransactions(file, h) ==
    /\ IsDict(file.data)
    /\ TxKey \in DOMAIN file.data.d
    /\ IsDict(file.data.d[TxKey])
    /\ h \in DOMAIN file.data.d[TxKey].d
    /\ IsList(file.data.d[TxKey].d[h])
    /\ file.data.d[TxKey].d[h].items # <<>>

\* the holders of the aggregate: the keys of its two holder maps and the
\* elements of the banks' cardholders lists
HoldersPresent(c) ==
    (DOMAIN c.combined_transactions_by_cardholder)
        \cup (DOMAIN c.summary_by_cardholder)
        \cup UNION {{c.summary_by_bank[b].cardholders[i] :
                        i \in 1..Len(c.summary_by_bank[b].cardholders)} :
                    b \in DOMAIN c.summary_by_bank}

\* C19: a holder is in the aggregate (a key of
\* combined_transactions_by_cardholder or of summary_by_cardholder, or an
\* element of a bank's cardholders) only if some file has a non-empty list for
\* it, and then its list in the aggregate is not empty
C19_EmptyHoldersSkipped ==
    Combined =>
        \A h \in HoldersPresent(combined) :
            /\ \E i \in 1..Len(individual_files) : HasTransactions(individual_files[i], h)
            /\ h \in DOMAIN combined.combined_transactions_by_cardholder
            /\ combined.combined_transactions_by_cardholder[h] # <<>>

\* a file whose holders have an empty list and null, combined with a file
\* that has transactions for one of them
C19_Witness ==
    /\ Combined
    /\ Len(individual_files) = 2
    /\ individual_files[1].filename = "empties"
    /\ individual_files[2].filename = "chase_jan"
    /\ HoldersPresent(combined) = {"AL BO"}
    /\ combined.summary_by_bank["Citi"].cardholders = <<>>
    /\ combined.summary_by_bank["Chase"].cardholders = <<"AL BO">>

\* the summary of a file, {} when it has none (line 38)
SummaryOf(file) == Get(file.data.d, "summary", DictV(EmptyDict))

\* a file that contributes to a bank: line 38 gives it a bank name
Contributing(file) ==
    /\ IsDict(file.data)
    /\ IsDict(SummaryOf(file))
    /\ Hashable(Get(SummaryOf(file).d, "bank_name", StrV(UnknownBank)))

BankOf(file) == Get(SummaryOf(file).d, "bank_name", StrV(UnknownBank)).s

\* a field of the file's own summary, in hundredths; 0 when it has no number
SummaryField(file, k) ==
    LET v == Get(SummaryOf(file).d, k, IntV(0))
    IN  IF Numeric(v) THEN Hundredths(v) ELSE 0

\* the files of the call that contribute to bank b
FilesOf(b) ==
    {i \in 1..Len(individual_files) :
        Contributing(individual_files[i]) /\ BankOf(individual_files[i]) = b}

\* the sum of a summary field over a set of files of the call
SumField(S, k) ==
    LET upto[i \in 0..Len(individual_files)] ==
            IF i = 0 THEN 0
            ELSE upto[i - 1] + (IF i \in S THEN SummaryField(individual_files[i], k) ELSE 0)
    IN  upto[Len(individual_files)]

\* C20 as stated: for every bank of summary_by_bank, total_statements is the
\* number of contributing files of that bank ("Unknown Bank" for a file with
\* no bank name), the four totals are the sums of those files' summary
\* fields, and cardholders has each holder seen for the bank once
C20_BankTotalsMatchDocuments ==
    Combined =>
        \A b \in DOMAIN combined.summary_by_bank :
            LET bank == combined.summary_by_bank[b]
                docs == FilesOf(b)
            IN  /\ bank.total_statements = Cardinality(docs)
                /\ bank.total_transactions = SumField(docs, "total_transactions")
                /\ bank.total_amount = SumField(docs, "total_amount")
                /\ bank.total_purchases = SumField(docs, "purchases")
                /\ bank.total_payments = SumField(docs, "payments")
                /\ \A i, j \in 1..Len(bank.cardholders) :
                       bank.cardholders[i] = bank.cardholders[j] => i = j
                /\ \A h \in DOMAIN combined.summary_by_cardholder :
                       (b \in DOMAIN combined.summary_by_cardholder[h].banks)
                           <=> \E i \in 1..Len(bank.cardholders) : bank.cardholders[i] = h

(***************************************************************************)
(* Claims on run_parsing_agent                                             *)
(***************************************************************************)
BatchDone == agent_pc = "done"

\* C13: the calls made for the file in hand are at most MAX_RETRIES + 1, the
\* k-th of them with retry level k - 1, none of them after a call that
\* succeeded; and the gate, while it is evaluated for an attempt, has that
\* attempt's number as its retry level
C13_AttemptSchedule ==
    /\ Len(attempts) <= MAX_RETRIES + 1
    /\ \A k \in 1..Len(attempts) : attempts[k].level = k - 1
    /\ \A k \in 1..(Len(attempts) - 1) : ~attempts[k].success
    /\ agent_pc \in {"attempt", "gate"} =>
           /\ attempt = Len(attempts)
           /\ attempt <= MAX_RETRIES
    /\ agent_pc = "gate" =>
           /\ retry_level = attempt
           /\ pc # "entry" => level = ClampLevel(attempt)

\* a file whose third attempt, at level 2, succeeded after two rejections
C13_Witness ==
    /\ agent_pc = "after"
    /\ Len(attempts) = 3
    /\ attempts[1].error_msg = MsgLowQuality(MsgNoValid)
    /\ attempts[2].error_msg = MsgLowQuality(MsgNoValid)
    /\ attempts[3].success
    /\ attempts[3].level = 2
    /\ success

\* C14: a step that reports a file as failed is taken after MAX_RETRIES + 1
\* attempts on it, all of them failed, and reports it with the reason the
\* last of them returned ("Unknown error" if that reason is empty)
C14_FailedWithLastReason ==
    [][failed_files' # failed_files =>
          /\ Len(attempts) = MAX_RETRIES + 1
          /\ \A k \in 1..Len(attempts) : ~attempts[k].success
          /\ failed_files' =
                 Append(failed_files,
                        <<statement_files[file_i].name,
                          StrV(OrElse(attempts[Len(attempts)].error_msg, MsgUnknown))>>)]_vars

\* a file reported with the reason of its third attempt, which is not the
\* reason of the first or of the second
C14_Witness ==
    /\ failed_files # <<>>
    /\ Len(attempts) = 3
    /\ attempts[1].error_msg = "boom"
    /\ attempts[2].error_msg = MsgLowQuality(MsgNoValid)
    /\ attempts[3].error_msg = MsgStage1
    /\ failed_files[Len(failed_files)] = <<"jan.pdf", StrV(MsgStage1)>>
    /\ agent_pc = "file"

\* C15: between two files the files gone through are each in exactly one of
\* the two lists, and the batch comes to its end with every file of the
\* input in one of them
C15_EveryFileRecorded ==
    /\ [](agent_pc \in {"file", "done"} /\ statement_files # <<>> =>
              Len(successful_files) + Len(failed_files) = file_i - 1)
    /\ <>(BatchDone /\ Len(successful_files) + Len(failed_files) = Len(statement_files))

\* a batch whose first file failed on an exception in each attempt and whose
\* second file succeeded
C15_Witness ==
    /\ BatchDone
    /\ Len(statement_files) = 2
    /\ failed_files = <<<<statement_files[1].name, StrV("boom")>>>>
    /\ successful_files = <<ParsedPath(statement_files[2].stem)>>

\* an aggregate whose totals are zero and whose maps are empty
IsEmptyAggregate(v) ==
    /\ IsDict(v)
    /\ {"combined_summary", "combined_transactions_by_cardholder", "summary_by_bank",
        "summary_by_cardholder", "category_totals"} \subseteq DOMAIN v.d
    /\ \A k \in DOMAIN v.d.combined_summary : v.d.combined_summary[k] = 0
    /\ DOMAIN v.d.combined_transactions_by_cardholder = {}
    /\ DOMAIN v.d.summary_by_bank = {}
    /\ DOMAIN v.d.summary_by_cardholder = {}
    /\ DOMAIN v.d.category_totals = {}

\* C16 as stated: combine_parsed_data of no file is the empty aggregate, and
\* so is what run_parsing_agent returns when no file succeeded
C16_EmptyAggregateFromBoth ==
    /\ IsEmptyAggregate(DictV(combine_parsed_data(<<>>)))
    /\ BatchDone /\ successful_files = <<>> => IsEmptyAggregate(batch_result)

\* C16 amended: combine_parsed_data of no file is the empty aggregate;
\* run_parsing_agent, when no file succeeded or none was given, does not call
\* it and returns the empty mapping {}, which has none of the aggregate's keys
C16_EmptyMappingFromAgent ==
    /\ IsEmptyAggregate(DictV(combine_parsed_data(<<>>)))
    /\ BatchDone /\ successful_files = <<>> =>
           /\ batch_result = DictV(EmptyDict)
           /\ ~IsEmptyAggregate(batch_result)
    /\ BatchDone /\ successful_files # <<>> =>
           /\ "combined_summary" \in DOMAIN batch_result.d
           /\ batch_result = DictV(combined)

\* a batch of two files that both failed
C16_Witness ==
    /\ BatchDone
    /\ Len(statement_files) = 2
    /\ Len(failed_files) = 2
    /\ successful_files = <<>>
    /\ batch_result = DictV(EmptyDict)

(***************************************************************************)
(* Claims on the holders' totals of combine_parsed_data                    *)
(***************************************************************************)
\* the list the file has for the holder, empty when line 55 skips it
HolderItems(file, h) ==
    IF HasTransactions(file, h) THEN file.data.d[TxKey].d[h].items ELSE <<>>

\* the holder's transactions of the files S of the call, in the order of the
\* files
ItemsOf(h, S) ==
    LET upto[i \in 0..Len(individual_files)] ==
            IF i = 0 THEN <<>>
            ELSE upto[i - 1] \o (IF i \in S THEN HolderItems(individual_files[i], h)
                                 ELSE <<>>)
    IN  upto[Len(individual_files)]

\* line 93: only a mapping is counted
CountedOne(t) == IF IsDict(t) THEN 1 ELSE 0

\* every file that reaches the loop of line 53 has only transactions the loop
\* of lines 92-114 can add
NoHolderRaises ==
    \A i \in 1..Len(individual_files) :
        LET file == individual_files[i]
        IN  (Contributing(file) /\ TxKey \in DOMAIN file.data.d) =>
                /\ IsDict(file.data.d[TxKey])
                /\ \A h \in DOMAIN file.data.d[TxKey].d :
                       IsList(file.data.d[TxKey].d[h])
                           => AllAddable(file.data.d[TxKey].d[h].items)

\* the four totals of a list of transactions, as lines 97-104 count them
TotalsOf(txs) ==
    [total_transactions |-> SumOf(txs, CountedOne),
     total_amount |-> SumOf(txs, SignedAmount),
     total_purchases |-> SumOf(txs, PurchasePart),
     total_payments |-> SumOf(txs, PaymentPart)]

\* the four totals of a record of the aggregate
FourTotals(r) ==
    [total_transactions |-> r.total_transactions, total_amount |-> r.total_amount,
     total_purchases |-> r.total_purchases, total_payments |-> r.total_payments]

AllFiles == 1..Len(individual_files)

CategoryOf(t) == Get(t.d, "category", StrV(Uncategorized)).s

\* the signed amount of a transaction when its category is cat, else 0
AmountIn(cat, t) == IF IsDict(t) /\ CategoryOf(t) = cat THEN SignedAmount(t) ELSE 0

AggregatedHolders == DOMAIN combined.combined_transactions_by_cardholder

\* every transaction of the aggregate can be added
AggregatedAddable ==
    \A h \in AggregatedHolders : AllAddable(combined.combined_transactions_by_cardholder[h])

\* the sum of F over a finite set
RECURSIVE SumOver(_, _)
SumOver(S, f) ==
    IF S = {} THEN 0
    ELSE LET x == CHOOSE y \in S : TRUE
         IN  f[x] + SumOver(S \ {x}, f)

\* the sum of the amounts of the holder's aggregated transactions of a category
HolderCategorySum(h, cat) ==
    SumOf(combined.combined_transactions_by_cardholder[h], LAMBDA t : AmountIn(cat, t))

\* the categories of the aggregated transactions
AggregatedCategories ==
    UNION {{CategoryOf(combined.combined_transactions_by_cardholder[h][i]) :
               i \in {j \in 1..Len(combined.combined_transactions_by_cardholder[h]) :
                         IsDict(combined.combined_transactions_by_cardholder[h][j])}} :
           h \in AggregatedHolders}

C24_CandidateUnchanged ==
    pc = "returned" => parsed = candidate

(***************************************************************************)
(* Claims on the gate at two consecutive levels                            *)
(***************************************************************************)
RECURSIVE IsSubsequence(_, _)
\* the elements of a are elements of b, in the same order
IsSubsequence(a, b) ==
    IF a = <<>> THEN TRUE
    ELSE IF b = <<>> THEN FALSE
    ELSE IF Head(a) = Head(b) THEN IsSubsequence(Tail(a), Tail(b))
    ELSE IsSubsequence(a, Tail(b))

\* cleaned_map of an evaluation of the same text and of a candidate equal to
\* the one passed in, one level up
CleanedOneLevelUp ==
    CleanedMap(candidate.d[TxKey].d, DOMAIN candidate.d[TxKey].d, EmptyDict,
               StrictnessKnobs(retry_level + 1), allowed_names)

\* C27: for retry levels 0 and 1, every holder retained at the level is
\* retained one level up with every transaction retained for it, in the same
\* order, and an evaluation that accepts at the level accepts one level up
C27_LeniencyMonotone ==
    (pc = "returned" /\ retry_level \in {0, 1} /\ WellFormed(candidate)) =>
        /\ \A h \in DOMAIN cleaned_map :
              /\ h \in DOMAIN CleanedOneLevelUp
              /\ IsSubsequence(cleaned_map[h].items, CleanedOneLevelUp[h].items)
        /\ result.ok => quality_gate(raw_text, candidate, retry_level + 1).ok

\* an evaluation that retains a holder, while the next level retains more,
\* and one that rejects what the next level accepts
C27_Witness ==
    /\ pc = "returned"
    /\ retry_level \in {0, 1}
    /\ WellFormed(candidate)
    /\ \/ /\ result.ok
          /\ cleaned_map # EmptyDict
          /\ CleanedOneLevelUp # cleaned_map
       \/ /\ ~result.ok
          /\ cleaned_map # EmptyDict
          /\ quality_gate(raw_text, candidate, retry_level + 1).ok

(***************************************************************************)
(* Claims on the consistency of the aggregate                              *)
(***************************************************************************)
\* C28 as stated: the two holder maps of the aggregate have the same keys,
\* and a holder's total_transactions is the number of entries of the
\* holder's list in combined_transactions_by_cardholder
C28_CountMatchesList ==
    Combined =>
        /\ DOMAIN combined.summary_by_cardholder = AggregatedHolders
        /\ \A h \in AggregatedHolders :
              combined.summary_by_cardholder[h].total_transactions =
                  Len(combined.combined_transactions_by_cardholder[h])

\* the iteration of lines 26-142 on the file ends without an exception: the
\* file is read, its content and its summary are mappings, its bank name can
\* be a key, its holder map, if it has one, is a mapping whose transactions
\* can all be added, and the four fields of its summary, if it has one, are
\* numbers
Completes(file) ==
    /\ file.data # Unreadable
    /\ Contributing(file)
    /\ TxKey \in DOMAIN file.data.d =>
          /\ IsDict(file.data.d[TxKey])
          /\ \A h \in DOMAIN file.data.d[TxKey].d :
                (IsList(file.data.d[TxKey].d[h]))
                    => AllAddable(file.data.d[TxKey].d[h].items)
    /\ "summary" \in DOMAIN file.data.d =>
          \A k \in {"total_transactions", "total_amount", "purchases", "payments"} :
              Numeric(Get(SummaryOf(file).d, k, IntV(0)))

\* C29 as stated: the aggregate is the one the files that end without an
\* exception give by themselves; a file whose iteration raises contributes
\* to no part of it
C29_AtomicPerDocument ==
    Combined => combined = combine_parsed_data(SelectSeq(individual_files, Completes))

(***************************************************************************)
(* Claims on what a call of process_single_statement leaves behind         *)
(***************************************************************************)
\* C30 as stated: a call of process_single_statement that started its code
\* executor has stopped it when it returns, whichever way it returns
C30_ExecutorStoppedOnReturn ==
    (attempts # <<>> /\ executor # "none") => executor = "stopped"

\* C25 as stated: a step writes a parsed file only when it ends an attempt
\* whose evaluation of the gate has returned an acceptance, the file is the
\* one of the document in hand and its content the cleaned parse the gate
\* returned; and a step that ends a failed attempt writes no parsed file
C25_WrittenOnlyOnAcceptance ==
    [][/\ output_dir' # output_dir =>
              /\ agent_pc = "gate" /\ pc = "returned" /\ result.ok
              /\ output_dir' = Put(output_dir, ParsedPath(statement_files[file_i].stem),
                                   result.cleaned)
       /\ (Len(attempts') > Len(attempts) /\ ~attempts'[Len(attempts')].success) =>
              output_dir' = output_dir]_vars

(***************************************************************************)
(* Claims on the call of combine_parsed_data by run_parsing_agent          *)
(***************************************************************************)
\* the names of the files reported as failed
FailedNames == {failed_files[k][1] : k \in 1..Len(failed_files)}

\* the files of the batch that are not reported as failed, in order
Succeeded == SelectSeq(statement_files, LAMBDA f : f.name \notin FailedNames)

\* C26 as stated: combine_parsed_data is called only when the loop over the
\* files has ended; it is given one path for each file whose attempts ended
\* in a success, in order, and none for a failed file; no two of the paths
\* are the same, so that no document is read twice, and each path holds a
\* parsed file an accepted attempt wrote
C26_CombineAfterLoopsOverSuccesses ==
    /\ combine_pc # "idle" => BatchDone
    /\ BatchDone =>
          /\ successful_files = [k \in 1..Len(Succeeded) |-> ParsedPath(Succeeded[k].stem)]
          /\ \A i, j \in 1..Len(successful_files) :
                successful_files[i] = successful_files[j] => i = j
          /\ successful_files = <<>> => combine_pc = "idle"
          /\ successful_files # <<>> =>
                /\ combine_pc = "returned"
                /\ Len(individual_files) = Len(successful_files)
                /\ \A k \in 1..Len(individual_files) : individual_files[k].data # Unreadable

(***************************************************************************)
(* Claims on two documents processed side by side                          *)
(***************************************************************************)
\* what a call on the file at the level returns when no other call runs
Alone(file, lv) ==
    Tuple(OnGateResult(quality_gate(file.text, ParseOfText(file.text), lv)))

\* C23 as stated: however the two calls take turns, each has read no text
\* but its own document's, returns what it returns when it runs alone, and
\* the parsed file of its document, if it wrote one, holds its own result
C23_SideBySideAsAlone ==
    \A d \in DOMAIN procs :
        /\ procs[d].seen \in {Missing, StrV(procs[d].file.text)}
        /\ procs[d].pc = "returned" =>
              /\ procs[d].ret = Alone(procs[d].file, procs[d].retry_level)
              /\ procs[d].ret.success =>
                    output_dir[ParsedPath(procs[d].file.stem)] = procs[d].ret.data

=============================================================================
